---- MODULE Spec2Model ----
(***************************************************************************)
(* Snapshot reconciliation pipeline of scripts/gms_fetcher.py:             *)
(* command_bulk_team_data (fetch, retry rounds, fallback substitution,     *)
(* result list, snapshot write, optional rotation) and rotate_snapshots.   *)
(* Absent JSON values (None, missing key, empty string) are modelled as    *)
(* the empty string, which is what the code's truthiness tests see.        *)
(***************************************************************************)
EXTENDS Integers, Sequences, FiniteSets, TLC

\* ---------------------------------------------------------------- bounds
MaxTeams == 2
MaxRuns == 2
NumContents == 2

\* ------------------------------------------------------ program constants
VALIDATION_MAX_RETRIES == 2
VALIDATION_BACKOFF_SECONDS == 4

\* ------------------------------------------------------------ file system
\* Paths: the published snapshot, its archive, the auto-created staging
\* snapshot (<publish>.new.json) and a caller-chosen --output path.
publish_path == "cur"
previous_path == "prev"
staging_path == "new"
custom_path == "out"
Paths == {publish_path, previous_path, staging_path, custom_path}

\* A path without a file.  wid identifies the write that created the file
\* (history information: it travels with the file when it is renamed).
NoFile == [exists |-> FALSE, data |-> <<>>, wid |-> 0]

\* ----------------------------------------------------------- data model
NoStats == [played |-> "", ppg |-> ""]
StatsValues == {[played |-> "10", ppg |-> "2.0"], [played |-> "9", ppg |-> ""]}

\* What one get_team_summary call can yield: an exception, or a summary.
Outcomes ==
  {[ok |-> FALSE, teamName |-> "", stats |-> NoStats]}
    \cup {[ok |-> TRUE, teamName |-> "Upstream", stats |-> s] : s \in StatsValues}

\* Configuration entries: a plain one, one with the same composite key under
\* another name, one sharing only the teamId, and the two kinds of
\* configuration error.
Entries ==
  { [name |-> "A", teamId |-> "t1", compId |-> "c1"],
    [name |-> "B", teamId |-> "t1", compId |-> "c1"],
    [name |-> "C", teamId |-> "t1", compId |-> "c2"],
    [name |-> "D", teamId |-> "t2", compId |-> ""],
    [name |-> "",  teamId |-> "",   compId |-> "c1"] }

Configs == UNION {[1..n -> Entries] : n \in 1..MaxTeams}

SnapshotDates == {"", "d1"}

RECURSIVE SeqFromFn(_, _)
SeqFromFn(f, n) == IF n = 0 THEN <<>> ELSE Append(SeqFromFn(f, n - 1), f[n])

make_entry_key(entry, index) ==
  LET team_id == IF entry.teamId # "" THEN entry.teamId ELSE "team-" \o ToString(index)
      comp_id == IF entry.compId # "" THEN entry.compId ELSE "comp-" \o ToString(index)
  IN  team_id \o "::" \o comp_id

build_error_record(entry, message) ==
  [ name |-> IF entry.name # "" THEN entry.name ELSE "Unknown Team",
    teamId |-> entry.teamId,
    compId |-> entry.compId,
    stats |-> NoStats,
    error |-> message,
    source |-> "",
    snapshotDate |-> "",
    fallbackSnapshot |-> "",
    fallbackAppliedAt |-> 0 ]

build_team_record(entry, summary) ==
  [ name |-> IF entry.name # "" THEN entry.name
             ELSE IF summary.teamName # "" THEN summary.teamName ELSE "Unknown Team",
    teamId |-> entry.teamId,
    compId |-> entry.compId,
    stats |-> summary.stats,
    error |-> "",
    source |-> "",
    snapshotDate |-> "",
    fallbackSnapshot |-> "",
    fallbackAppliedAt |-> 0 ]

attach_snapshot_meta(record, date) ==
  IF date # "" THEN [record EXCEPT !.snapshotDate = date] ELSE record

\* fetch_team_record: fetched tells whether get_team_summary was called.
fetch_team_record(entry, index, outcome) ==
  IF entry.teamId = "" \/ entry.compId = ""
  THEN [ok |-> FALSE, fetched |-> FALSE, message |-> "Missing teamId or compId",
        record |-> build_error_record(entry, "")]
  ELSE IF outcome.ok
  THEN [ok |-> TRUE, fetched |-> TRUE, message |-> "",
        record |-> build_team_record(entry, outcome)]
  ELSE [ok |-> FALSE, fetched |-> TRUE, message |-> "fetch failed",
        record |-> build_error_record(entry, "")]

\* A fallback map that finds nothing in the snapshot.
load_fallback_map_empty(file) == <<>>

\* load_fallback_map: index the snapshot on teamId; a later item replaces an
\* earlier one with the same teamId; items without teamId are skipped.
load_fallback_map(file) ==
  IF ~file.exists THEN <<>>
  ELSE LET data == file.data
           ids == {data[j].teamId : j \in 1..Len(data)} \ {""}
           last(t) == CHOOSE j \in 1..Len(data) :
                        /\ data[j].teamId = t
                        /\ \A k \in 1..Len(data) : data[k].teamId = t => k <= j
       IN  [t \in ids |-> data[last(t)]]

\* A copy that is not stamped as a fallback.
fallback_copy_unstamped(fallback_record, path, now, date) ==
  attach_snapshot_meta(fallback_record, date)

\* Lines 1360-1365: the copy of the prior record, stamped as a fallback.
fallback_copy(fallback_record, path, now, date) ==
  attach_snapshot_meta(
    [fallback_record EXCEPT !.source = "fallback",
                            !.fallbackSnapshot = path,
                            !.fallbackAppliedAt = now],
    date)

\* errors_by_key is an insertion-ordered dict: a sequence of contexts.
ErrKeys(errs) == [j \in 1..Len(errs) |-> errs[j].key]
ErrHas(errs, key) == \E j \in 1..Len(errs) : errs[j].key = key
ErrGet(errs, key) == errs[CHOOSE j \in 1..Len(errs) : errs[j].key = key]
ErrPut(errs, ctx) ==
  IF ErrHas(errs, ctx.key)
  THEN [j \in 1..Len(errs) |-> IF errs[j].key = ctx.key THEN ctx ELSE errs[j]]
  ELSE Append(errs, ctx)
\* A failure map that keeps the key of an entry that succeeded.
ErrDel_keep(errs, key) == errs

ErrDel(errs, key) == SelectSeq(errs, LAMBDA c : c.key # key)
ErrSetMessage(errs, key, message) ==
  [j \in 1..Len(errs) |->
     IF errs[j].key = key THEN [errs[j] EXCEPT !.message = message] ELSE errs[j]]

MapPut(f, k, v) == (k :> v) @@ f

save_json(files, path, payload, w) ==
  [files EXCEPT ![path] = [exists |-> TRUE, data |-> payload, wid |-> w]]

\* A copy in place of a rename: the source stays.
Replace_copy(files, src, dst) == [files EXCEPT ![dst] = files[src]]

\* Path.replace: rename src over dst.
Replace(files, src, dst) ==
  [files EXCEPT ![dst] = files[src], ![src] = NoFile]

VARIABLES
  config,          \* the team/competition configuration (read by every run)
  fs,              \* path -> file
  pc,              \* position of the bulk run
  runNo,           \* number of runs started; also the clock of utcnow()
  rotate, output_file, snapshot_date,   \* arguments of the current run
  idx,             \* position of the initial pass
  attempt,         \* retry round
  pending,         \* pending_keys of the current retry round
  records_by_key, errors_by_key, results,
  rpc, rnew,       \* position and new_snapshot argument of rotate_snapshots
  \* history variables
  origin_by_key,   \* key -> index of the entry records_by_key[key] was made for
  builds,          \* index -> number of fetch_team_record calls
  fetches,         \* index -> number of get_team_summary calls
  okKeys,          \* keys a Build succeeded for in this run
  fs0,             \* the files when the run started
  allRotate,       \* every run so far asked for rotation
  published,       \* a current snapshot has existed
  rot0,            \* the files when rotate_snapshots was called
  crashed, crash0  \* rotation killed ("before"/"between" the renames), and
                   \* the files at the call that was killed between them

VARIABLES
  slept,           \* the orchestrator's backoff sleeps of this run, in seconds
  last,            \* the latest call of fetch_team_record of this run
  \* GMSClient (one instance): time in milliseconds
  clock,           \* time.time()
  next_allowed,    \* self._next_allowed
  cpc,             \* position of _get
  cattempt,        \* attempt of the loop of _get
  resp,            \* the response to the last request
  statuses,        \* what the requests of this call of _get were answered
  reqTimes,        \* when the last two requests of this client were issued
  backoffs,        \* the 429 backoffs of this call: delay, schedule, sleep
  calls,           \* number of calls of _get
  \* command_validate_snapshots
  vpc, previous_given, expected_count, issues, exit_status,
  \* filter_weekend_fixtures
  wpc, today, fixtures, saturday_utc, weekend_fixtures

VARIABLES
  \* two bulk runs on the same paths
  opc,             \* run -> its position
  oerrs,           \* run -> its failure map when it writes its snapshot
  serial,          \* the scheduler never starts a run while another is running
  lastOld          \* the current snapshot when a rotation last began

ovVars == <<opc, oerrs, serial, lastOld>>

VARIABLES
  \* the live updater
  upc,             \* position of the updater process
  once,            \* --once
  validate,        \* --validate
  expect_count,    \* --expect-count, 0 when absent
  installed,       \* gms_fetcher.py and the team configuration exist
  errors_left,     \* the bulk subprocess still has entries in its failure map
  fetch_rc,        \* return code of the bulk subprocess, -1 before it has run
  validate_rc,     \* return code of the validating subprocess, -1 before it has run
  success,         \* what run_fetch returned last
  last_outcome,    \* how the last finished cycle ended
  validated,       \* the current snapshot the validating subprocess read
  exit_code        \* exit status of the updater, -1 while it runs

upVars == <<upc, once, validate, expect_count, installed, errors_left,
            fetch_rc, validate_rc, success, last_outcome, validated, exit_code>>

VARIABLES
  \* update-scoreboard
  spc,               \* position of the command
  sruns,             \* commands started
  sidx,              \* index of the configured team being fetched
  scoreboard_file,   \* weekend_fixtures.json
  previous_board,    \* weekend_fixtures.json as the command found it
  fetched,           \* the weekend fixtures the upstream returned, with their team
  scoreboard_home,
  scoreboard_away

sbVars == <<spc, sruns, sidx, scoreboard_file, previous_board, fetched,
            scoreboard_home, scoreboard_away>>

clientVars == <<clock, next_allowed, cpc, cattempt, resp, statuses, reqTimes,
                backoffs, calls>>
valVars == <<vpc, previous_given, expected_count, issues, exit_status>>
wkVars == <<wpc, today, fixtures, saturday_utc, weekend_fixtures>>
extVars == <<clientVars, valVars, wkVars, ovVars, upVars, sbVars>>

argVars == <<rotate, output_file, snapshot_date>>
loopVars == <<idx, attempt, pending, records_by_key, errors_by_key, results>>
histVars == <<origin_by_key, builds, fetches, okKeys, fs0, allRotate>>
rotVars == <<rpc, rnew, rot0, crashed, crash0>>
bulkVars == <<config, pc, runNo, argVars, loopVars, histVars, rotVars, published, slept, last>>
vars == <<fs, bulkVars, extVars>>

\* The parts of the state that belong to a component that is not running.
ClientIdle ==
  /\ clock = 0 /\ next_allowed = 0 /\ cpc = "off" /\ cattempt = 0
  /\ resp = [status |-> 0, retry_after |-> <<>>]
  /\ statuses = <<>> /\ reqTimes = <<>> /\ backoffs = <<>> /\ calls = 0
ValIdle ==
  /\ vpc = "off" /\ previous_given = FALSE /\ expected_count = 0
  /\ issues = <<>> /\ exit_status = 0
WkIdle ==
  /\ wpc = "off" /\ today = 0 /\ fixtures = <<>>
  /\ saturday_utc = 0 /\ weekend_fixtures = <<>>

NoAttempt == [key |-> "", ok |-> FALSE, retry |-> FALSE]

OvIdle ==
  /\ opc = <<>> /\ oerrs = <<>> /\ serial = TRUE /\ lastOld = NoFile
NoBoard == [exists |-> FALSE, home |-> <<>>, away |-> <<>>]
UpIdle ==
  /\ upc = "off" /\ once = FALSE /\ validate = FALSE /\ expect_count = 0
  /\ installed = TRUE /\ errors_left = FALSE /\ fetch_rc = -1 /\ validate_rc = -1
  /\ success = FALSE /\ last_outcome = "none" /\ validated = NoFile /\ exit_code = -1
SbIdle ==
  /\ spc = "off" /\ sruns = 0 /\ sidx = 0
  /\ scoreboard_file = NoBoard /\ previous_board = NoBoard /\ fetched = <<>>
  /\ scoreboard_home = <<>> /\ scoreboard_away = <<>>
LaterIdle == OvIdle /\ UpIdle /\ SbIdle

N == Len(config)

\* Lines 1307-1311.
target_output ==
  IF rotate /\ output_file = publish_path THEN staging_path ELSE output_file

Init ==
  /\ config \in Configs
  /\ fs = [p \in Paths |-> NoFile]
  /\ pc = "idle"
  /\ runNo = 0
  /\ rotate = FALSE /\ output_file = publish_path /\ snapshot_date = ""
  /\ idx = 0 /\ attempt = 0 /\ pending = <<>>
  /\ records_by_key = <<>> /\ errors_by_key = <<>> /\ results = <<>>
  /\ rpc = "none" /\ rnew = staging_path
  /\ origin_by_key = <<>>
  /\ builds = [i \in 1..Len(config) |-> 0]
  /\ fetches = [i \in 1..Len(config) |-> 0]
  /\ okKeys = {}
  /\ fs0 = fs
  /\ allRotate = TRUE
  /\ published = FALSE
  /\ rot0 = fs /\ crashed = "none" /\ crash0 = fs
  /\ slept = <<>> /\ last = NoAttempt
  /\ ClientIdle /\ ValIdle /\ WkIdle
  /\ LaterIdle

\* command_bulk_team_data is entered (lines 1291-1318).
StartRun ==
  /\ pc \in {"idle", "done"}
  /\ runNo < MaxRuns
  /\ \E rot \in BOOLEAN, out \in {publish_path, custom_path}, date \in SnapshotDates :
       /\ rotate' = rot /\ output_file' = out /\ snapshot_date' = date
       /\ allRotate' = (allRotate /\ rot)
  /\ pc' = "initial"
  /\ runNo' = runNo + 1
  /\ idx' = 1 /\ attempt' = 1 /\ pending' = <<>>
  /\ records_by_key' = <<>> /\ errors_by_key' = <<>> /\ results' = <<>>
  /\ origin_by_key' = <<>>
  /\ builds' = [i \in 1..N |-> 0]
  /\ fetches' = [i \in 1..N |-> 0]
  /\ okKeys' = {}
  /\ fs0' = fs
  /\ UNCHANGED <<config, fs, rotVars, published>>
  /\ slept' = <<>> /\ last' = NoAttempt
  /\ UNCHANGED extVars

\* One call of fetch_team_record from either loop, and the bookkeeping of
\* lines 1324-1328 (first = TRUE) or 1342-1347 (first = FALSE).
Attempt(entry, index, key, outcome, first) ==
  LET r == fetch_team_record(entry, index, outcome)
  IN  /\ builds' = [builds EXCEPT ![index] = @ + 1]
      /\ last' = [key |-> key, ok |-> r.ok, retry |-> ~first]
      /\ fetches' = [fetches EXCEPT ![index] = @ + (IF r.fetched THEN 1 ELSE 0)]
      /\ IF r.ok
         THEN /\ records_by_key' =
                   MapPut(records_by_key, key, attach_snapshot_meta(r.record, snapshot_date))
              /\ origin_by_key' = MapPut(origin_by_key, key, index)
              /\ okKeys' = okKeys \cup {key}
              /\ errors_by_key' = IF first THEN errors_by_key ELSE ErrDel(errors_by_key, key)
         ELSE /\ errors_by_key' =
                   IF first
                   THEN ErrPut(errors_by_key,
                               [key |-> key, entry |-> entry, index |-> index,
                                message |-> r.message])
                   ELSE ErrSetMessage(errors_by_key, key, r.message)
              /\ UNCHANGED <<records_by_key, origin_by_key, okKeys>>

\* The initial pass, one entry per step (lines 1320-1328).
InitialFetch ==
  /\ pc = "initial"
  /\ \E outcome \in Outcomes :
       Attempt(config[idx], idx, make_entry_key(config[idx], idx), outcome, TRUE)
  /\ idx' = idx + 1
  /\ pc' = IF idx = N THEN "retry" ELSE "initial"
  /\ UNCHANGED <<config, fs, runNo, argVars, attempt, pending, results,
                 fs0, allRotate, rotVars, published>>
  /\ UNCHANGED <<slept, extVars>>

\* A backoff that does not grow with the round.
backoff_seconds_flat(round) == VALIDATION_BACKOFF_SECONDS

\* Line 1335: the wait before retry round `round`.
backoff_seconds(round) == VALIDATION_BACKOFF_SECONDS * round

\* A retry loop that goes on for as long as a failure is left.
retry_allowed_unbounded(round, errs) == errs # <<>>

\* Line 1332: `while retry_round <= VALIDATION_MAX_RETRIES and errors_by_key`.
retry_allowed(round, errs) == round <= VALIDATION_MAX_RETRIES /\ errs # <<>>

\* Head of a retry round (lines 1332-1336).
RetryRound ==
  /\ pc = "retry"
  /\ IF retry_allowed(attempt, errors_by_key)
     THEN /\ slept' = Append(slept, backoff_seconds(attempt))
          /\ pending' = ErrKeys(errors_by_key)
          /\ pc' = "retrying"
     ELSE /\ slept' = slept
          /\ pending' = <<>>
          /\ pc' = "fallback"
  /\ UNCHANGED <<config, fs, runNo, argVars, idx, attempt, records_by_key,
                 errors_by_key, results, histVars, rotVars, published>>
  /\ UNCHANGED <<last, extVars>>

\* One re-attempt of a retry round (lines 1337-1347).
RetryFetch ==
  /\ pc = "retrying"
  /\ pending # <<>>
  /\ LET key == Head(pending)
         context == ErrGet(errors_by_key, key)
     IN  \E outcome \in Outcomes :
           Attempt(context.entry, context.index, key, outcome, FALSE)
  /\ pending' = Tail(pending)
  /\ IF Tail(pending) = <<>>
     THEN pc' = "retry" /\ attempt' = attempt + 1
     ELSE pc' = "retrying" /\ attempt' = attempt
  /\ UNCHANGED <<config, fs, runNo, argVars, idx, results,
                 fs0, allRotate, rotVars, published>>
  /\ UNCHANGED <<slept, extVars>>

\* Fallback substitution from the published snapshot (lines 1349-1368).
fallback_resolution(errs, recs, origin, files, now, date) ==
  LET fallback_map == load_fallback_map(files[publish_path])
      hit(c) == /\ errs # <<>> /\ files[publish_path].exists
                /\ c.entry.teamId # ""
                /\ c.entry.teamId \in DOMAIN fallback_map
      hits == {j \in 1..Len(errs) : hit(errs[j])}
      ctxOf(k) == errs[CHOOSE j \in hits : errs[j].key = k]
      hitKeys == {errs[j].key : j \in hits}
  IN  [ records |->
          [k \in DOMAIN recs \cup hitKeys |->
             IF k \in hitKeys
             THEN fallback_copy(fallback_map[ctxOf(k).entry.teamId],
                                publish_path, now, date)
             ELSE recs[k]],
        origin |->
          [k \in DOMAIN origin \cup hitKeys |->
             IF k \in hitKeys THEN ctxOf(k).index ELSE origin[k]],
        errors |-> SelectSeq(errs, LAMBDA c : ~hit(c)),
        used |-> hitKeys ]

Fallback ==
  /\ pc = "fallback"
  /\ LET f == fallback_resolution(errors_by_key, records_by_key, origin_by_key,
                                  fs, runNo, snapshot_date)
     IN  /\ records_by_key' = f.records
         /\ origin_by_key' = f.origin
         /\ errors_by_key' = f.errors
  /\ pc' = "build"
  /\ UNCHANGED <<config, fs, runNo, argVars, idx, attempt, pending, results,
                 builds, fetches, okKeys, fs0, allRotate, rotVars, published>>
  /\ UNCHANGED <<slept, last, extVars>>

\* A result list that leaves out the entries without a record.
build_results_drop_errors(cfg, recs, errs) ==
  LET all == SeqFromFn([i \in 1..Len(cfg) |-> i], Len(cfg))
      kept == SelectSeq(all, LAMBDA i : make_entry_key(cfg[i], i) \in DOMAIN recs)
  IN  [j \in 1..Len(kept) |-> recs[make_entry_key(cfg[kept[j]], kept[j])]]

\* The ordered result list (lines 1370-1378).
build_results(cfg, recs, errs) ==
  SeqFromFn(
    [i \in 1..Len(cfg) |->
       LET key == make_entry_key(cfg[i], i)
       IN  IF key \in DOMAIN recs
           THEN recs[key]
           ELSE build_error_record(
                  cfg[i],
                  IF ErrHas(errs, key) THEN ErrGet(errs, key).message
                  ELSE "Unknown error")],
    Len(cfg))

\* Lines 1370-1382: build the list and write it to target_output.
BuildAndSave ==
  /\ pc = "build"
  /\ results' = build_results(config, records_by_key, errors_by_key)
  /\ fs' = save_json(fs, target_output, results', runNo)
  /\ published' = (published \/ fs'[publish_path].exists)
  /\ pc' = "rotate"
  /\ UNCHANGED <<config, runNo, argVars, idx, attempt, pending, records_by_key,
                 errors_by_key, histVars, rotVars>>
  /\ UNCHANGED <<slept, last, extVars>>

\* A rotation that ignores the failure map.
rotation_never_skipped(errs) == FALSE

\* Line 1391: rotation is skipped while the failure map is non-empty.
rotation_skipped(errs) == errs # <<>>

\* Lines 1390-1397.
RotateDecision ==
  /\ pc = "rotate"
  /\ IF rotate /\ ~rotation_skipped(errors_by_key)
     THEN /\ pc' = "rotating"
          /\ rpc' = "check" /\ rnew' = target_output /\ rot0' = fs
          /\ crashed' = "none" /\ crash0' = crash0
     ELSE /\ pc' = "done"
          /\ UNCHANGED rotVars
  /\ UNCHANGED <<config, fs, runNo, argVars, loopVars, histVars, published>>
  /\ UNCHANGED <<slept, last, extVars>>

\* A rotation without the existence test.
new_snapshot_never_missing(files, path) == FALSE

\* rotate_snapshots, line 316.
new_snapshot_missing(files, path) == ~files[path].exists

RotateCheck ==
  /\ rpc = "check"
  /\ rpc' = IF new_snapshot_missing(fs, rnew) THEN "raised" ELSE "demote"
  /\ UNCHANGED <<config, fs, pc, runNo, argVars, loopVars, histVars,
                 rnew, rot0, crashed, crash0, published>>
  /\ UNCHANGED <<slept, last, extVars>>

\* A rotation that does not archive the current snapshot first.
demote_skipped(files) == files

\* rotate_snapshots, lines 319-321.
demote(files) ==
  IF files[publish_path].exists
  THEN Replace(files, publish_path, previous_path)
  ELSE files

RotateDemote ==
  /\ rpc = "demote"
  /\ fs' = demote(fs)
  /\ rpc' = "promote"
  /\ published' = (published \/ fs'[publish_path].exists)
  /\ UNCHANGED <<config, pc, runNo, argVars, loopVars, histVars,
                 rnew, rot0, crashed, crash0>>
  /\ UNCHANGED <<slept, last, extVars>>

\* A promotion onto the wrong path.
promote_misplaced(files, new_snapshot) == Replace(files, new_snapshot, previous_path)

\* A promotion that copies the new snapshot and leaves it in place.
promote_copy(files, new_snapshot) == Replace_copy(files, new_snapshot, publish_path)

\* A promotion that removes the new snapshot without publishing it.
promote_discard(files, new_snapshot) == [files EXCEPT ![new_snapshot] = NoFile]

\* rotate_snapshots, lines 323-324.
promote(files, new_snapshot) == Replace(files, new_snapshot, publish_path)

RotatePromote ==
  /\ rpc = "promote"
  /\ fs' = promote(fs, rnew)
  /\ rpc' = "returned"
  /\ published' = (published \/ fs'[publish_path].exists)
  /\ UNCHANGED <<config, pc, runNo, argVars, loopVars, histVars,
                 rnew, rot0, crashed, crash0>>
  /\ UNCHANGED <<slept, last, extVars>>

\* rotate_snapshots has returned (or raised) into command_bulk_team_data,
\* which ends (lines 1398-1406).
RotateReturn ==
  /\ pc = "rotating"
  /\ rpc \in {"returned", "raised"}
  /\ pc' = "done"
  /\ rpc' = "none"
  /\ UNCHANGED <<config, fs, runNo, argVars, loopVars, histVars,
                 rnew, rot0, crashed, crash0, published>>
  /\ UNCHANGED <<slept, last, extVars>>

Next ==
  \/ StartRun
  \/ InitialFetch
  \/ RetryRound
  \/ RetryFetch
  \/ Fallback
  \/ BuildAndSave
  \/ RotateDecision
  \/ RotateCheck
  \/ RotateDemote
  \/ RotatePromote
  \/ RotateReturn

Spec == Init /\ [][Next]_vars

\* The steps of a run that has been started: the upstream answers or fails
\* within the client's bounds, the waits end, the file operations return.
RunSteps ==
  \/ InitialFetch
  \/ RetryRound
  \/ RetryFetch
  \/ Fallback
  \/ BuildAndSave
  \/ RotateDecision
  \/ RotateCheck
  \/ RotateDemote
  \/ RotatePromote
  \/ RotateReturn

SpecFair == Init /\ [][Next]_vars /\ WF_vars(RunSteps)

\* ------------------------------------------------------------------------
\* rotate_snapshots on its own: called on any three files, killed at any
\* point, called again.
Contents == {[exists |-> TRUE, data |-> <<>>, wid |-> k] : k \in 1..NumContents}

InitRotate ==
  /\ config = <<>>
  /\ fs \in {f \in [Paths -> Contents \cup {NoFile}] : f[custom_path] = NoFile}
  /\ pc = "lib"
  /\ runNo = 0
  /\ rotate = FALSE /\ output_file = publish_path /\ snapshot_date = ""
  /\ idx = 0 /\ attempt = 0 /\ pending = <<>>
  /\ records_by_key = <<>> /\ errors_by_key = <<>> /\ results = <<>>
  /\ rpc = "none" /\ rnew = staging_path
  /\ origin_by_key = <<>> /\ builds = <<>> /\ fetches = <<>> /\ okKeys = {}
  /\ fs0 = fs
  /\ allRotate = TRUE
  /\ published = fs[publish_path].exists
  /\ rot0 = fs /\ crashed = "none" /\ crash0 = fs
  /\ slept = <<>> /\ last = NoAttempt
  /\ ClientIdle /\ ValIdle /\ WkIdle
  /\ LaterIdle

\* rotate_snapshots(new, current, previous) is called (lines 309-314).
RotateCall ==
  /\ pc = "lib"
  /\ rpc \in {"none", "crashed", "returned", "raised"}
  /\ rpc' = "check"
  /\ rot0' = fs
  /\ crashed' = IF rpc = "crashed" THEN crashed ELSE "none"
  /\ UNCHANGED <<config, fs, pc, runNo, argVars, loopVars, histVars,
                 rnew, crash0, published>>
  /\ UNCHANGED <<slept, last, extVars>>

\* The process is terminated inside rotate_snapshots.
RotateCrash ==
  /\ pc = "lib"
  /\ rpc \in {"check", "demote", "promote"}
  /\ rpc' = "crashed"
  /\ crashed' = IF rpc = "promote" \/ crashed = "between" THEN "between" ELSE "before"
  /\ crash0' = IF crashed = "between" THEN crash0
               ELSE IF rpc = "promote" THEN rot0 ELSE crash0
  /\ UNCHANGED <<config, fs, pc, runNo, argVars, loopVars, histVars,
                 rnew, rot0, published>>
  /\ UNCHANGED <<slept, last, extVars>>

NextRotate ==
  \/ RotateCall
  \/ RotateCheck
  \/ RotateDemote
  \/ RotatePromote
  \/ RotateCrash

SpecRotate == InitRotate /\ [][NextRotate]_vars

\* The bulk command is not running: its variables as InitRotate has them.
BulkIdle ==
  /\ config = <<>>
  /\ pc = "lib"
  /\ runNo = 0
  /\ rotate = FALSE /\ output_file = publish_path /\ snapshot_date = ""
  /\ idx = 0 /\ attempt = 0 /\ pending = <<>>
  /\ records_by_key = <<>> /\ errors_by_key = <<>> /\ results = <<>>
  /\ rpc = "none" /\ rnew = staging_path
  /\ origin_by_key = <<>> /\ builds = <<>> /\ fetches = <<>> /\ okKeys = {}
  /\ fs0 = fs
  /\ allRotate = TRUE
  /\ published = fs[publish_path].exists
  /\ rot0 = fs /\ crashed = "none" /\ crash0 = fs
  /\ slept = <<>> /\ last = NoAttempt

\* ------------------------------------------------------------------------
\* GMSClient._get: one client, called again and again; time in milliseconds.
MaxCalls == 2

rate_limit_ms == 1200
retry_limit == 4

\* What the upstream answers: time.time() advances by the latency.
Latencies == {50}
\* Time the caller lets pass between two calls of _get.
CallerGaps == {0, 1500}

DigitChars == <<"0", "1", "2", "3", "4", "5", "6", "7", "8", "9">>
Digits == {DigitChars[d] : d \in 1..10}

\* The Retry-After header as a sequence of characters, when it is present.
RetryAfterValues ==
  { <<>>, <<"0">>, <<"1", "0">>, <<"W", "e", "d">> }

NoHeader == [present |-> FALSE, value |-> <<>>]
Headers == {NoHeader} \cup {[present |-> TRUE, value |-> v] : v \in RetryAfterValues}

StatusCodes == {200, 429, 500}
NoResponse == [status |-> 0, retry_after |-> NoHeader]
Responses ==
  {[status |-> st, retry_after |-> NoHeader] : st \in StatusCodes \ {429}}
  \cup {[status |-> 429, retry_after |-> h] : h \in Headers}

\* str.isdigit: non-empty and decimal digits only.
isdigit(s) == s # <<>> /\ \A i \in 1..Len(s) : s[i] \in Digits

DigitVal(c) == (CHOOSE d \in 1..10 : DigitChars[d] = c) - 1

\* int(s) for a string of decimal digits.
RECURSIVE ParseInt(_)
ParseInt(s) ==
  IF s = <<>> THEN 0
  ELSE ParseInt(SubSeq(s, 1, Len(s) - 1)) * 10 + DigitVal(s[Len(s)])

RECURSIVE Pow2(_)
Pow2(n) == IF n = 0 THEN 1 ELSE 2 * Pow2(n - 1)

\* Line 654: `retry_after and retry_after.isdigit()`.
retry_after_usable(h) == h.present /\ h.value # <<>> /\ isdigit(h.value)

\* A delay that takes whatever the header holds for a number of seconds.
backoff_delay_any_header(h, k) ==
  IF h.present /\ h.value # <<>>
  THEN (IF isdigit(h.value) THEN ParseInt(h.value) ELSE 0) * 1000
  ELSE rate_limit_ms * Pow2(k)

\* Lines 653-657: the delay after a 429 at attempt k.
backoff_delay(h, k) ==
  IF retry_after_usable(h)
  THEN ParseInt(h.value) * 1000
  ELSE rate_limit_ms * Pow2(k)

\* Response.raise_for_status raises for 4xx and 5xx.
raises_for_status(st) == st >= 400 /\ st < 600

\* A loop that never takes its last attempt for the last.
last_attempt_never(k) == FALSE

\* Line 659.
last_attempt(k) == k = retry_limit

Max(a, b) == IF a >= b THEN a ELSE b

InitClient ==
  /\ fs = [p \in Paths |-> NoFile]
  /\ BulkIdle /\ ValIdle /\ WkIdle
  /\ LaterIdle
  /\ clock = 0 /\ next_allowed = 0
  /\ cpc = "idle" /\ cattempt = 0
  /\ resp = NoResponse
  /\ statuses = <<>> /\ reqTimes = <<>> /\ backoffs = <<>> /\ calls = 0

\* _get is called (line 649: the loop starts at attempt 1).
GetCall ==
  /\ cpc \in {"idle", "returned", "raised_http", "raised_transport", "raised_runtime"}
  /\ calls < MaxCalls
  /\ calls' = calls + 1
  /\ \E gap \in (IF calls = 0 THEN {0} ELSE CallerGaps) : clock' = clock + gap
  /\ cattempt' = 1
  /\ cpc' = "top"
  /\ statuses' = <<>> /\ backoffs' = <<>>
  /\ UNCHANGED <<next_allowed, resp, reqTimes>>
  /\ UNCHANGED <<fs, bulkVars, valVars, wkVars, ovVars, upVars, sbVars>>

\* Lines 650-651: _respect_rate_limit, then session.get answers or raises.
Request ==
  /\ cpc = "top"
  /\ LET sent == Max(clock, next_allowed)
     IN  /\ reqTimes' = IF reqTimes = <<>> THEN <<sent>>
                        ELSE <<reqTimes[Len(reqTimes)], sent>>
         /\ \E latency \in Latencies :
              /\ clock' = sent + latency
              /\ \/ \E r \in Responses :
                      /\ resp' = r
                      /\ statuses' = Append(statuses, r.status)
                      /\ cpc' = "sent"
                 \/ /\ resp' = NoResponse
                    /\ statuses' = Append(statuses, 0)
                    /\ cpc' = "raised_transport"
  /\ UNCHANGED <<next_allowed, cattempt, backoffs, calls>>
  /\ UNCHANGED <<fs, bulkVars, valVars, wkVars, ovVars, upVars, sbVars>>

\* Lines 653-668: the response is handled.
Handle ==
  /\ cpc = "sent"
  /\ IF resp.status = 429
     THEN LET delay == backoff_delay(resp.retry_after, cattempt)
              raised == last_attempt(cattempt)
          IN  /\ next_allowed' = clock + delay
              /\ backoffs' = Append(backoffs,
                   [attempt |-> cattempt, header |-> resp.retry_after,
                    honoured |-> retry_after_usable(resp.retry_after),
                    delay |-> delay, at |-> clock,
                    slept |-> IF raised THEN 0 ELSE delay])
              /\ IF raised
                 THEN /\ cpc' = "raised_http"
                      /\ UNCHANGED <<clock, cattempt>>
                 ELSE /\ clock' = clock + delay
                      /\ cattempt' = cattempt + 1
                      /\ cpc' = IF cattempt + 1 > retry_limit
                                THEN "raised_runtime" ELSE "top"
     ELSE /\ IF raises_for_status(resp.status)
             THEN cpc' = "raised_http" /\ next_allowed' = next_allowed
             ELSE cpc' = "returned" /\ next_allowed' = clock + rate_limit_ms
          /\ UNCHANGED <<clock, cattempt, backoffs>>
  /\ UNCHANGED <<resp, statuses, reqTimes, calls>>
  /\ UNCHANGED <<fs, bulkVars, valVars, wkVars, ovVars, upVars, sbVars>>

NextClient ==
  \/ GetCall
  \/ Request
  \/ Handle

SpecClient == InitClient /\ [][NextClient]_vars

\* ------------------------------------------------------------------------
\* command_validate_snapshots on a current and a previous snapshot file.
MaxSnapshot == 3

ValEntry(t) == [name |-> t, teamId |-> t, compId |-> "c1"]
GoodSummary == [ok |-> TRUE, teamName |-> "Upstream", stats |-> [played |-> "10", ppg |-> "2.0"]]
NoPpgSummary == [ok |-> TRUE, teamName |-> "Upstream", stats |-> [played |-> "9", ppg |-> ""]]

\* Records of a previous snapshot: teams A, B, D and a record without teamId.
PreviousRecords ==
  {build_team_record(ValEntry(t), GoodSummary) : t \in {"A", "B", "D", ""}}

\* Records of a current snapshot: also team C, an error record, and a record
\* without points per game.
CurrentRecords ==
  PreviousRecords
  \cup { build_team_record(ValEntry("C"), GoodSummary),
         build_error_record(ValEntry("A"), "boom"),
         build_team_record(ValEntry("B"), NoPpgSummary) }

SnapshotsOf(recs) ==
  {NoFile} \cup
  {[exists |-> TRUE, data |-> f, wid |-> 1] :
     f \in UNION {[1..n -> recs] : n \in 0..MaxSnapshot}}

\* --expect-count: absent (0) or a number.
ExpectedCounts == {0, 2, 3}

IsErrorEntry(record) == record.error # ""
IsMissingPpg(record) == record.stats.ppg = "" /\ record.error = ""

\* analyze_snapshot (lines 427-440).
analyze_snapshot(records) ==
  [ count |-> Len(records),
    team_ids |-> {records[j].teamId : j \in 1..Len(records)} \ {""},
    errors |-> SelectSeq(records, IsErrorEntry),
    missing_ppg |-> SelectSeq(records, IsMissingPpg) ]

\* `entry.get("name") or entry.get("teamId") or "Unknown"`.
problem_name(entry) ==
  IF entry.name # "" THEN entry.name
  ELSE IF entry.teamId # "" THEN entry.teamId ELSE "Unknown"

\* The first five names of the message.
problem_names(entries) ==
  [j \in 1..(IF Len(entries) < 5 THEN Len(entries) ELSE 5) |-> problem_name(entries[j])]

Issue(kind, n, names) == [kind |-> kind, n |-> n, names |-> names]

\* Lines 450-469: the checks on the current snapshot.
current_issues(current_stats, expected) ==
  (IF expected # 0 /\ current_stats.count # expected
   THEN <<Issue("current_count", current_stats.count, <<>>)>> ELSE <<>>)
  \o (IF current_stats.errors # <<>>
      THEN <<Issue("errors", Len(current_stats.errors),
                   problem_names(current_stats.errors))>> ELSE <<>>)
  \o (IF current_stats.missing_ppg # <<>>
      THEN <<Issue("missing_ppg", Len(current_stats.missing_ppg),
                   problem_names(current_stats.missing_ppg))>> ELSE <<>>)

\* A comparison that looks one way only.
previous_issues_one_way(current_stats, previous, given, expected) ==
  IF given /\ previous.exists
  THEN LET previous_stats == analyze_snapshot(previous.data)
           missing_from_current == previous_stats.team_ids \ current_stats.team_ids
       IN  (IF expected # 0 /\ previous_stats.count # expected
            THEN <<Issue("previous_count", previous_stats.count, <<>>)>> ELSE <<>>)
           \o (IF missing_from_current # {}
               THEN <<Issue("missing_from_current", Cardinality(missing_from_current),
                            missing_from_current)>> ELSE <<>>)
  ELSE IF given THEN <<Issue("previous_not_found", 0, <<>>)>> ELSE <<>>

\* Lines 471-492: the checks against the previous snapshot. The teamIds of
\* the messages are the whole difference here: it has fewer than 5 elements.
previous_issues(current_stats, previous, given, expected) ==
  IF given /\ previous.exists
  THEN LET previous_stats == analyze_snapshot(previous.data)
           missing_from_current == previous_stats.team_ids \ current_stats.team_ids
           missing_from_previous == current_stats.team_ids \ previous_stats.team_ids
       IN  (IF expected # 0 /\ previous_stats.count # expected
            THEN <<Issue("previous_count", previous_stats.count, <<>>)>> ELSE <<>>)
           \o (IF missing_from_current # {}
               THEN <<Issue("missing_from_current", Cardinality(missing_from_current),
                            missing_from_current)>> ELSE <<>>)
           \o (IF missing_from_previous # {}
               THEN <<Issue("missing_from_previous", Cardinality(missing_from_previous),
                            missing_from_previous)>> ELSE <<>>)
  ELSE IF given THEN <<Issue("previous_not_found", 0, <<>>)>> ELSE <<>>

\* A validation that stops at its first issue.
exit_after_first(found) == IF found = <<>> THEN <<>> ELSE <<Head(found)>>

\* Lines 494-498: every issue is printed, then SystemExit(1) once.
reported(found) == found

InitValidate ==
  /\ \E current \in SnapshotsOf(CurrentRecords),
        previous \in SnapshotsOf(PreviousRecords) :
       fs = [p \in Paths |-> IF p = publish_path THEN current
                             ELSE IF p = previous_path THEN previous
                             ELSE NoFile]
  /\ BulkIdle /\ ClientIdle /\ WkIdle
  /\ LaterIdle
  /\ vpc = "called"
  /\ previous_given \in BOOLEAN
  /\ expected_count \in ExpectedCounts
  /\ issues = <<>> /\ exit_status = 0

\* read_snapshot(current_path) raises FileNotFoundError (lines 417-418).
ValidateRaises ==
  /\ vpc = "called"
  /\ ~fs[publish_path].exists
  /\ vpc' = "raised"
  /\ exit_status' = 1
  /\ UNCHANGED <<previous_given, expected_count, issues>>
  /\ UNCHANGED <<fs, bulkVars, clientVars, wkVars, ovVars, upVars, sbVars>>

\* command_validate_snapshots on a readable current snapshot (lines 446-508).
Validate ==
  /\ vpc = "called"
  /\ fs[publish_path].exists
  /\ LET current_stats == analyze_snapshot(fs[publish_path].data)
         found == current_issues(current_stats, expected_count)
                  \o previous_issues(current_stats, fs[previous_path],
                                     previous_given, expected_count)
     IN  /\ issues' = reported(found)
         /\ exit_status' = IF found # <<>> THEN 1 ELSE 0
         /\ vpc' = IF found # <<>> THEN "failed" ELSE "passed"
  /\ UNCHANGED <<previous_given, expected_count>>
  /\ UNCHANGED <<fs, bulkVars, clientVars, wkVars, ovVars, upVars, sbVars>>

NextValidate ==
  \/ ValidateRaises
  \/ Validate

SpecValidate == InitValidate /\ [][NextValidate]_vars

\* ------------------------------------------------------------------------
\* filter.py, filter_weekend_fixtures. Times are whole hours since a Monday
\* 00:00 UTC, so that day d has weekday d % 7 with Monday = 0.
MaxFixtures == 2
MaxDay == 8

HoursOfDay == {0, 10, 23}

weekday(t) == (t \div 24) % 7
midnight(t) == (t \div 24) * 24

UpperChars == <<"A", "B", "C", "D", "E", "F", "G", "H", "I", "J", "K", "L", "M",
                "N", "O", "P", "Q", "R", "S", "T", "U", "V", "W", "X", "Y", "Z">>
LowerChars == <<"a", "b", "c", "d", "e", "f", "g", "h", "i", "j", "k", "l", "m",
                "n", "o", "p", "q", "r", "s", "t", "u", "v", "w", "x", "y", "z">>

\* str.lower, on a sequence of characters.
lower_char(c) ==
  IF \E i \in 1..26 : UpperChars[i] = c
  THEN LowerChars[CHOOSE i \in 1..26 : UpperChars[i] = c]
  ELSE c
lower(s) == [i \in 1..Len(s) |-> lower_char(s[i])]

\* str.strip.
RECURSIVE lstrip(_)
lstrip(s) == IF s # <<>> /\ Head(s) = " " THEN lstrip(Tail(s)) ELSE s
RECURSIVE rstrip(_)
rstrip(s) ==
  IF s # <<>> /\ s[Len(s)] = " " THEN rstrip(SubSeq(s, 1, Len(s) - 1)) ELSE s
strip(s) == rstrip(lstrip(s))

\* `sub in s`.
contains(s, sub) ==
  \E i \in 1..(Len(s) - Len(sub) + 1) : SubSeq(s, i, i + Len(sub) - 1) = sub

\* A value that may be None.
PyNone == [none |-> TRUE, s |-> <<>>]
Str(s) == [none |-> FALSE, s |-> s]
\* `x or ''`.
or_empty(x) == IF x.none THEN <<>> ELSE x.s

\* A date: None, or an ISO date-time with its UTC offset, in hours.
NoDate == [none |-> TRUE, local |-> 0, offset |-> 0]
Date(local, offset) == [none |-> FALSE, local |-> local, offset |-> offset]

\* datetime.fromisoformat(...).astimezone(UTC).
to_utc(date) == date.local - date.offset

\* Saturday of the first week, 15:00 UTC.
BaseDate == Date(5 * 24 + 15, 0)

Fixture(division, home, away, kickoff, date) ==
  [division |-> division, home_team |-> home, away_team |-> away,
   kickoff |-> kickoff, date |-> date]

BaseFixture(date) ==
  Fixture(Str(<<"P", "r", "e", "m">>), Str(<<"M", "1">>), Str(<<"M", "2">>),
          Str(<<"1", "2">>), date)

\* A plain fixture at the edges of the first weekend's window, and fixtures
\* on the Saturday afternoon that differ from the plain one in one field.
FixtureValues ==
  {BaseFixture(d) :
     d \in {Date(5 * 24 - 3, 0), Date(5 * 24 - 2, 0), Date(5 * 24 - 2, 1),
            Date(5 * 24 - 1, 1), BaseDate, Date(7 * 24 + 1, 0),
            Date(7 * 24 + 2, 0), Date(7 * 24 + 2, 1), NoDate}}
  \cup {Fixture(dv, Str(<<"M", "1">>), Str(<<"M", "2">>), Str(<<"1", "2">>), BaseDate) :
          dv \in {PyNone, Str(<<>>)}}
  \cup {Fixture(Str(<<"P", "r", "e", "m">>), h, Str(<<"M", "2">>), Str(<<"1", "2">>), BaseDate) :
          h \in {PyNone, Str(<<"U", "1", "8">>), Str(<<"X", "u", "1", "6", "s">>),
                 Str(<<"U", "1", "7">>)}}
  \cup {Fixture(Str(<<"P", "r", "e", "m">>), Str(<<"M", "1">>), a, Str(<<"1", "2">>), BaseDate) :
          a \in {PyNone, Str(<<"u", "1", "8">>), Str(<<"A", " ", "U", "1", "6">>)}}
  \cup {Fixture(Str(<<"P", "r", "e", "m">>), Str(<<"M", "1">>), Str(<<"M", "2">>), k, BaseDate) :
          k \in {PyNone, Str(<<"T", "B", "C">>), Str(<<" ", "t", "b", "c", " ">>),
                 Str(<<"T", "B", "C", "?">>)}}
  \cup {Fixture(PyNone, Str(<<"M", "1">>), Str(<<"M", "2">>), Str(<<"1", "2">>), NoDate)}

\* is_kids_fixture (lines 109-123).
is_kids_fixture(fixture) ==
  LET division_is_null == fixture.division.none
      home == lower(or_empty(fixture.home_team))
      away == lower(or_empty(fixture.away_team))
      contains_age_band ==
        \/ contains(home, <<"u", "1", "8">>) \/ contains(home, <<"u", "1", "6">>)
        \/ contains(away, <<"u", "1", "8">>) \/ contains(away, <<"u", "1", "6">>)
  IN  division_is_null \/ contains_age_band

\* has_tbc_kickoff (lines 126-132).
has_tbc_kickoff(fixture) ==
  IF fixture.kickoff.none THEN FALSE
  ELSE lower(strip(fixture.kickoff.s)) = <<"t", "b", "c">>

\* An anchor that is always the Saturday ahead.
anchor_saturday_ahead(now) == midnight(now + 24 * ((5 - weekday(now)) % 7))

\* Lines 145-153: the Saturday the window is anchored to.
anchor_saturday(now) ==
  IF weekday(now) = 6 THEN midnight(now - 24)
  ELSE IF weekday(now) = 5 THEN midnight(now)
  ELSE midnight(now + 24 * ((5 - weekday(now)) % 7))

\* A window that is closed at its end.
in_range_closed(t, saturday) ==
  saturday - 2 <= t /\ t <= saturday + 2 * 24 + 2

\* Lines 155-159 and 171: range_start <= fixture_datetime < range_end.
in_range(t, saturday) ==
  LET monday_utc == saturday + 2 * 24
      range_start == saturday - 2
      range_end == monday_utc + 2
  IN  range_start <= t /\ t < range_end

\* Lines 163-172: the loop; fromisoformat raises on a date that is None.
RECURSIVE filter_loop(_, _, _)
filter_loop(rest, saturday, kept) ==
  IF rest = <<>> THEN [raised |-> FALSE, kept |-> kept]
  ELSE LET fixture == Head(rest)
       IN  IF is_kids_fixture(fixture) \/ has_tbc_kickoff(fixture)
           THEN filter_loop(Tail(rest), saturday, kept)
           ELSE IF fixture.date.none
           THEN [raised |-> TRUE, kept |-> kept]
           ELSE filter_loop(Tail(rest), saturday,
                            IF in_range(to_utc(fixture.date), saturday)
                            THEN Append(kept, fixture) ELSE kept)

InitWeekend ==
  /\ fs = [p \in Paths |-> NoFile]
  /\ BulkIdle /\ ClientIdle /\ ValIdle
  /\ LaterIdle
  /\ wpc = "called"
  /\ \E d \in 0..MaxDay, h \in HoursOfDay : today = d * 24 + h
  /\ fixtures \in UNION {[1..n -> FixtureValues] : n \in 0..MaxFixtures}
  /\ saturday_utc = 0
  /\ weekend_fixtures = <<>>

\* filter_weekend_fixtures(fixtures) at datetime.now(UTC) = today.
FilterWeekend ==
  /\ wpc = "called"
  /\ LET saturday == anchor_saturday(today)
         result == filter_loop(fixtures, saturday, <<>>)
     IN  /\ saturday_utc' = saturday
         /\ weekend_fixtures' = IF result.raised THEN <<>> ELSE result.kept
         /\ wpc' = IF result.raised THEN "raised" ELSE "returned"
  /\ UNCHANGED <<today, fixtures>>
  /\ UNCHANGED <<fs, bulkVars, clientVars, valVars, ovVars, upVars, sbVars>>

NextWeekend == FilterWeekend

SpecWeekend == InitWeekend /\ [][NextWeekend]_vars

\* ------------------------------------------------------------------------
\* Two rotation-enabled bulk runs on the same staging, current and previous
\* paths, from the write of the snapshot on (lines 1380-1397 and
\* rotate_snapshots, one file-system call per step). What a run fetched is
\* left open: a failure map that is empty or not.
Procs == {1, 2}

OldCurrent == [exists |-> TRUE, data |-> <<>>, wid |-> 3]
OldPrevious == [exists |-> TRUE, data |-> <<>>, wid |-> 4]
OldStaging == [exists |-> TRUE, data |-> <<>>, wid |-> 5]

FailureMaps == {<<>>, <<"failed">>}

Running(p) == opc[p] \notin {"wait", "ended", "raised"}

InitOverlap ==
  /\ \E previous \in {NoFile, OldPrevious}, staging \in {NoFile, OldStaging} :
       fs = [p \in Paths |-> IF p = publish_path THEN OldCurrent
                             ELSE IF p = previous_path THEN previous
                             ELSE IF p = staging_path THEN staging
                             ELSE NoFile]
  /\ BulkIdle /\ ClientIdle /\ ValIdle /\ WkIdle
  /\ UpIdle /\ SbIdle
  /\ opc = [p \in Procs |-> "wait"]
  /\ oerrs = [p \in Procs |-> <<>>]
  /\ serial \in BOOLEAN
  /\ lastOld = NoFile

\* A run is started and fetches (lines 1291-1368).
OvStart(p) ==
  /\ opc[p] = "wait"
  /\ serial => \A q \in Procs : ~Running(q)
  /\ \E errs \in FailureMaps : oerrs' = [oerrs EXCEPT ![p] = errs]
  /\ opc' = [opc EXCEPT ![p] = "save"]
  /\ UNCHANGED <<fs, serial, lastOld>>
  /\ UNCHANGED <<bulkVars, clientVars, valVars, wkVars, upVars, sbVars>>

\* Line 1380: save_json(results, target_output), the staging path.
OvSave(p) ==
  /\ opc[p] = "save"
  /\ fs' = save_json(fs, staging_path, <<>>, p)
  /\ opc' = [opc EXCEPT ![p] = "decide"]
  /\ UNCHANGED <<oerrs, serial, lastOld>>
  /\ UNCHANGED <<bulkVars, clientVars, valVars, wkVars, upVars, sbVars>>

\* Lines 1390-1397: rotation is skipped, or rotate_snapshots is called.
OvDecide(p) ==
  /\ opc[p] = "decide"
  /\ opc' = [opc EXCEPT ![p] = IF rotation_skipped(oerrs[p]) THEN "ended" ELSE "check"]
  /\ UNCHANGED <<fs, oerrs, serial, lastOld>>
  /\ UNCHANGED <<bulkVars, clientVars, valVars, wkVars, upVars, sbVars>>

\* Lines 316-317: new_snapshot.exists().
OvCheck(p) ==
  /\ opc[p] = "check"
  /\ IF new_snapshot_missing(fs, staging_path)
     THEN opc' = [opc EXCEPT ![p] = "raised"] /\ lastOld' = lastOld
     ELSE opc' = [opc EXCEPT ![p] = "exists"] /\ lastOld' = fs[publish_path]
  /\ UNCHANGED <<fs, oerrs, serial>>
  /\ UNCHANGED <<bulkVars, clientVars, valVars, wkVars, upVars, sbVars>>

\* Line 319: current_snapshot.exists().
OvExists(p) ==
  /\ opc[p] = "exists"
  /\ opc' = [opc EXCEPT ![p] = IF fs[publish_path].exists THEN "demote" ELSE "promote"]
  /\ UNCHANGED <<fs, oerrs, serial, lastOld>>
  /\ UNCHANGED <<bulkVars, clientVars, valVars, wkVars, upVars, sbVars>>

\* Line 321: current_snapshot.replace(previous_snapshot); it raises
\* FileNotFoundError when current is gone by now.
OvDemote(p) ==
  /\ opc[p] = "demote"
  /\ IF fs[publish_path].exists
     THEN /\ fs' = Replace(fs, publish_path, previous_path)
          /\ opc' = [opc EXCEPT ![p] = "promote"]
     ELSE /\ fs' = fs
          /\ opc' = [opc EXCEPT ![p] = "raised"]
  /\ UNCHANGED <<oerrs, serial, lastOld>>
  /\ UNCHANGED <<bulkVars, clientVars, valVars, wkVars, upVars, sbVars>>

\* Line 324: new_snapshot.replace(current_snapshot); it raises
\* FileNotFoundError when the staging file is gone by now.
OvPromote(p) ==
  /\ opc[p] = "promote"
  /\ IF fs[staging_path].exists
     THEN /\ fs' = promote(fs, staging_path)
          /\ opc' = [opc EXCEPT ![p] = "ended"]
     ELSE /\ fs' = fs
          /\ opc' = [opc EXCEPT ![p] = "raised"]
  /\ UNCHANGED <<oerrs, serial, lastOld>>
  /\ UNCHANGED <<bulkVars, clientVars, valVars, wkVars, upVars, sbVars>>

NextOverlap ==
  \E p \in Procs :
    \/ OvStart(p)
    \/ OvSave(p)
    \/ OvDecide(p)
    \/ OvCheck(p)
    \/ OvExists(p)
    \/ OvDemote(p)
    \/ OvPromote(p)

SpecOverlap == InitOverlap /\ [][NextOverlap]_vars

\* ------------------------------------------------------------------------
\* The live updater (live_league_updater.py): cycles of a bulk fetch with
\* rotation, an optional validation, and a wait. The bulk subprocess is the
\* command of lines 1291-1406 with --output and --publish-path on the same
\* file and --rotate-snapshots: it writes the staging snapshot and rotates
\* when its failure map is empty.
UpGood == build_team_record(ValEntry("A"), GoodSummary)
UpOther == build_team_record(ValEntry("B"), GoodSummary)
UpNoPpg == build_team_record(ValEntry("B"), NoPpgSummary)
UpError == build_error_record(ValEntry("B"), "boom")

\* The result lists a bulk run writes: complete, one team short, with a
\* record without points per game, with an error record.
UpSnapshots ==
  { <<UpGood, UpOther>>, <<UpGood>>, <<UpGood, UpNoPpg>>, <<UpGood, UpError>> }

UpFile(data) == [exists |-> TRUE, data |-> data, wid |-> 1]

\* A failure that is left in errors_by_key is an error record of the list.
HasErrorRecord(data) == \E j \in 1..Len(data) : data[j].error # ""

UpExpectCounts == {0, 2}

\* The exit status of validate-snapshots --current C --previous P
\* [--expect-count n]: 1 on an unreadable current snapshot or on any issue.
validate_exit(files, expected) ==
  IF ~files[publish_path].exists THEN 1
  ELSE LET current_stats == analyze_snapshot(files[publish_path].data)
           found == current_issues(current_stats, expected)
                    \o previous_issues(current_stats, files[previous_path],
                                       TRUE, expected)
       IN  IF reported(found) # <<>> THEN 1 ELSE 0

\* A cycle that passes whatever validation returned.
validation_passed_always(returncode) == TRUE

\* Line 122: `if validate_result.returncode != 0: ... return False`.
validation_passed(returncode) == returncode = 0

\* A loop that ends after a failed cycle.
loop_continues_on_success(ok) == ok

\* Line 149: `while True`.
loop_continues(ok) == TRUE

InitUpdater ==
  /\ \E current \in {NoFile, UpFile(<<UpGood, UpOther>>)},
        previous \in {NoFile, UpFile(<<UpGood, UpOther>>)} :
       fs = [p \in Paths |-> IF p = publish_path THEN current
                             ELSE IF p = previous_path THEN previous
                             ELSE NoFile]
  /\ BulkIdle /\ ClientIdle /\ ValIdle /\ WkIdle /\ OvIdle /\ SbIdle
  /\ upc = "main"
  /\ once \in BOOLEAN /\ validate \in BOOLEAN
  /\ expect_count \in UpExpectCounts
  /\ installed \in BOOLEAN
  /\ errors_left = FALSE /\ fetch_rc = -1 /\ validate_rc = -1
  /\ success = FALSE /\ last_outcome = "none" /\ validated = NoFile
  /\ exit_code = -1

upArgs == <<once, validate, expect_count, installed>>
notUpVars == <<bulkVars, clientVars, valVars, wkVars, ovVars, sbVars>>

\* main calls run_fetch, directly or from run_continuous (lines 197-205).
UpMain ==
  /\ upc = "main"
  /\ upc' = "cycle"
  /\ UNCHANGED <<fs, upArgs, errors_left, fetch_rc, validate_rc, success,
                 last_outcome, validated, exit_code, notUpVars>>

\* Lines 47-56: the fetcher or the configuration is missing.
UpMissing ==
  /\ upc = "cycle" /\ ~installed
  /\ upc' = "cycle_end"
  /\ fetch_rc' = -1 /\ validate_rc' = -1 /\ validated' = NoFile
  /\ success' = FALSE /\ last_outcome' = "missing"
  /\ UNCHANGED <<fs, upArgs, errors_left, exit_code, notUpVars>>

\* Lines 58-87: the bulk subprocess is started and run_fetch waits for it.
UpSpawnBulk ==
  /\ upc = "cycle" /\ installed
  /\ upc' = "bulk"
  /\ fetch_rc' = -1 /\ validate_rc' = -1 /\ validated' = NoFile
  /\ UNCHANGED <<fs, upArgs, errors_left, success, last_outcome, exit_code,
                 notUpVars>>

\* Lines 134-136: subprocess.run raises, for the fetch or for the validation.
UpException ==
  /\ \/ upc = "cycle" /\ installed /\ fetch_rc' = -1
     \/ upc = "bulk_done" /\ fetch_rc = 0 /\ validate /\ fetch_rc' = fetch_rc
  /\ upc' = "cycle_end"
  /\ validate_rc' = -1 /\ validated' = NoFile
  /\ success' = FALSE /\ last_outcome' = "exception"
  /\ UNCHANGED <<fs, upArgs, errors_left, exit_code, notUpVars>>

\* The bulk subprocess fails before it writes anything (an unreadable
\* configuration, a termination): a return code that is not 0.
UpBulkCrash ==
  /\ upc = "bulk"
  /\ upc' = "bulk_done"
  /\ fetch_rc' = 1
  /\ UNCHANGED <<fs, upArgs, errors_left, validate_rc, success, last_outcome,
                 validated, exit_code, notUpVars>>

\* gms_fetcher.py line 1380: the bulk subprocess writes its result list to
\* the staging snapshot.
UpBulkSave ==
  /\ upc = "bulk"
  /\ \E data \in UpSnapshots :
       /\ fs' = save_json(fs, staging_path, data, 1)
       /\ errors_left' = HasErrorRecord(data)
  /\ upc' = "bulk_saved"
  /\ UNCHANGED <<upArgs, fetch_rc, validate_rc, success, last_outcome,
                 validated, exit_code, notUpVars>>

\* gms_fetcher.py lines 1390-1406: rotation unless failures remain, and the
\* subprocess ends with return code 0 either way.
UpBulkRotate ==
  /\ upc = "bulk_saved"
  /\ fs' = IF errors_left THEN fs ELSE promote(demote(fs), staging_path)
  /\ fetch_rc' = 0
  /\ upc' = "bulk_done"
  /\ UNCHANGED <<upArgs, errors_left, validate_rc, success, last_outcome,
                 validated, exit_code, notUpVars>>

\* Lines 89-93.
UpFetchFailed ==
  /\ upc = "bulk_done" /\ fetch_rc # 0
  /\ upc' = "cycle_end"
  /\ success' = FALSE /\ last_outcome' = "fetch_error"
  /\ UNCHANGED <<fs, upArgs, errors_left, fetch_rc, validate_rc, validated,
                 exit_code, notUpVars>>

\* Lines 100 and 131-132: no validation was asked for.
UpNoValidation ==
  /\ upc = "bulk_done" /\ fetch_rc = 0 /\ ~validate
  /\ upc' = "cycle_end"
  /\ success' = TRUE /\ last_outcome' = "ok"
  /\ UNCHANGED <<fs, upArgs, errors_left, fetch_rc, validate_rc, validated,
                 exit_code, notUpVars>>

\* Lines 100-120: the validating subprocess is started on the current and
\* the previous snapshot.
UpSpawnValidate ==
  /\ upc = "bulk_done" /\ fetch_rc = 0 /\ validate
  /\ upc' = "validating"
  /\ validated' = fs[publish_path]
  /\ UNCHANGED <<fs, upArgs, errors_left, fetch_rc, validate_rc, success,
                 last_outcome, exit_code, notUpVars>>

\* Lines 114-132: validation has ended.
UpValidated ==
  /\ upc = "validating"
  /\ validate_rc' = validate_exit(fs, expect_count)
  /\ success' = validation_passed(validate_rc')
  /\ last_outcome' = IF success' THEN "ok" ELSE "validation_failed"
  /\ upc' = "cycle_end"
  /\ UNCHANGED <<fs, upArgs, errors_left, fetch_rc, validated, exit_code,
                 notUpVars>>

\* Lines 197-199: --once.
UpExitOnce ==
  /\ upc = "cycle_end" /\ once
  /\ upc' = "exited"
  /\ exit_code' = IF success THEN 0 ELSE 1
  /\ UNCHANGED <<fs, upArgs, errors_left, fetch_rc, validate_rc, success,
                 last_outcome, validated, notUpVars>>

\* Lines 150-162: run_continuous waits for the interval.
UpSleep ==
  /\ upc = "cycle_end" /\ ~once
  /\ loop_continues(success)
  /\ upc' = "sleeping"
  /\ UNCHANGED <<fs, upArgs, errors_left, fetch_rc, validate_rc, success,
                 last_outcome, validated, exit_code, notUpVars>>

\* Lines 149-150: the wait is over.
UpWake ==
  /\ upc = "sleeping"
  /\ upc' = "cycle"
  /\ UNCHANGED <<fs, upArgs, errors_left, fetch_rc, validate_rc, success,
                 last_outcome, validated, exit_code, notUpVars>>

\* Lines 164-166: KeyboardInterrupt anywhere in the loop.
UpInterrupt ==
  /\ ~once
  /\ upc \in {"cycle", "bulk", "bulk_saved", "bulk_done", "validating",
              "cycle_end", "sleeping"}
  /\ upc' = "stopped"
  /\ exit_code' = 0
  /\ UNCHANGED <<fs, upArgs, errors_left, fetch_rc, validate_rc, success,
                 last_outcome, validated, notUpVars>>

\* Every step of the updater but the interrupt.
UpSteps ==
  \/ UpMain
  \/ UpMissing
  \/ UpSpawnBulk
  \/ UpException
  \/ UpBulkCrash
  \/ UpBulkSave
  \/ UpBulkRotate
  \/ UpFetchFailed
  \/ UpNoValidation
  \/ UpSpawnValidate
  \/ UpValidated
  \/ UpExitOnce
  \/ UpSleep
  \/ UpWake

NextUpdater ==
  \/ UpSteps
  \/ UpInterrupt

SpecUpdater == InitUpdater /\ [][NextUpdater]_vars

\* The subprocesses end and the wait ends; the interrupt may never come.
SpecUpdaterFair == InitUpdater /\ [][NextUpdater]_vars /\ WF_vars(UpSteps)

\* ------------------------------------------------------------------------
\* update-scoreboard.  The module defines command_update_scoreboard twice
\* (lines 934 and 1187); the second definition replaces the first when the
\* module is loaded, and it is the one the dispatch of line 1565 calls.
\* The CSV files the command also writes are left out.
MaxScoreRuns == 2
MaxWeekend == 1

\* str.replace(sub, by).
RECURSIVE replace(_, _, _)
replace(s, sub, by) ==
  IF Len(s) < Len(sub) \/ sub = <<>> THEN s
  ELSE IF SubSeq(s, 1, Len(sub)) = sub
       THEN by \o replace(SubSeq(s, Len(sub) + 1, Len(s)), sub, by)
       ELSE <<Head(s)>> \o replace(Tail(s), sub, by)

\* str.split(sep), sep not empty.
RECURSIVE split(_, _)
split(s, sep) ==
  IF ~contains(s, sep) THEN <<s>>
  ELSE LET i == CHOOSE k \in 1..Len(s) :
                  /\ SubSeq(s, k, k + Len(sep) - 1) = sep
                  /\ \A m \in 1..(k - 1) : SubSeq(s, m, m + Len(sep) - 1) # sep
       IN  <<SubSeq(s, 1, i - 1)>> \o split(SubSeq(s, i + Len(sep), Len(s)), sep)

\* A score: None or an integer.
NoScore == [none |-> TRUE, v |-> 0]
Score(n) == [none |-> FALSE, v |-> n]

\* Lines 1153-1168: the two scores of a score text, None unless it reads
\* "h - a" or "h:a" with decimal digits.
parse_score(text) ==
  LET score_str == strip(text)
      dash == split(score_str, <<" ", "-", " ">>)
      colon == split(score_str, <<":">>)
  IN  IF contains(score_str, <<" ", "-", " ">>)
      THEN IF Len(dash) = 2 /\ isdigit(dash[1]) /\ isdigit(dash[2])
           THEN <<Score(ParseInt(dash[1])), Score(ParseInt(dash[2]))>>
           ELSE <<NoScore, NoScore>>
      ELSE IF contains(score_str, <<":">>)
      THEN IF isdigit(strip(colon[1])) /\ isdigit(strip(colon[2]))
           THEN <<Score(ParseInt(strip(colon[1]))), Score(ParseInt(strip(colon[2])))>>
           ELSE <<NoScore, NoScore>>
      ELSE <<NoScore, NoScore>>

\* determine_category_gender (lines 1083-1101).
determine_category_gender(team_name, comp_label) ==
  LET team_lower == lower(team_name)
      comp_lower == lower(comp_label)
  IN  IF \/ contains(team_lower, <<"(", "f", ")">>) \/ contains(comp_lower, <<"w", "o", "m", "e", "n">>)
         \/ contains(team_lower, <<"l", "a", "d", "i", "e", "s">>)
      THEN "women"
      ELSE IF contains(team_lower, <<"(", "m", ")">>) \/ contains(comp_lower, <<"m", "e", "n">>) THEN "men"
      ELSE IF contains(team_lower, <<"w", "o", "m", "e", "n">>) THEN "women"
      ELSE "men"

\* Lines 1140-1147.
clean_division(comp_label) ==
  replace(replace(replace(comp_label, <<"E", "a", "s", "t", " ", "O", "p", "e", "n", " ", "-", " ", "M", "e", "n", "'", "s", " ">>, <<>>), <<"E", "a", "s", "t", " ", "W", "o", "m", "e", "n", "'", "s", " ">>, <<>>), <<" ", "(", "2", "0", "2", "5", "-", "2", "0", "2", "6", ")">>, <<>>)

\* format_scoreboard_fixture (lines 1104-1185).
format_scoreboard_fixture(fixture, my_team_name, my_team_category, comp_label, fixture_id) ==
  LET at_home == contains(lower(fixture.homeTeam), <<"s", "t", " ", "a", "l", "b", "a", "n", "s">>)
      scores == parse_score(fixture.score)
  IN  [ date |-> fixture.dateTime,
        team |-> my_team_name,
        category |-> my_team_category,
        home_team |-> fixture.homeTeam,
        away_team |-> fixture.awayTeam,
        kickoff |-> fixture.time,
        division |-> clean_division(comp_label),
        location |-> IF at_home THEN "Home" ELSE "Away",
        status |-> IF fixture.status = "pending" THEN "Scheduled" ELSE "Played",
        fixtureId |-> fixture_id,
        home_score |-> scores[1],
        away_score |-> scores[2],
        _ha |-> IF at_home THEN "h" ELSE "a" ]

\* Line 1231: f"{team_id}-{f.get('date')}-{f.get('time')}".
fixture_id_of(team_id, f) == team_id \o <<"-">> \o f.date \o <<"-">> \o f.time

\* The configured teams: one with both ids and one without a competition.
ScoreTeams ==
  << [name |-> <<"S", "t", " ", "A", "l", "b", "a", "n", "s", " ", "1", " ", "(", "M", ")">>, teamId |-> <<"t", "1">>, compId |-> <<"c", "1">>,
      compLabel |-> <<"D", "i", "v", " ", "1", " ", "(", "2", "0", "2", "5", "-", "2", "0", "2", "6", ")">>],
     [name |-> <<"S", "t", " ", "A", "l", "b", "a", "n", "s", " ", "2", " ", "(", "M", ")">>, teamId |-> <<"t", "2">>, compId |-> <<>>,
      compLabel |-> <<>>] >>

ScoreTexts == {<<>>, <<"2", " ", "-", " ", "1">>, <<"2", ":", "1">>, <<"v">>}
Sides == {<<<<"S", "t", " ", "A", "l", "b", "a", "n", "s", " ", "1">>, <<"X">>>>, <<<<"X">>, <<"S", "t", " ", "A", "l", "b", "a", "n", "s", " ", "1">>>>}

\* What the parser of the upstream page yields for one fixture of the
\* weekend.
RawFixtures ==
  {[date |-> <<"1", "0">>, time |-> <<"1", "4">>, dateTime |-> <<"1", "0", "T", "1", "4">>,
    homeTeam |-> sd[1], awayTeam |-> sd[2], score |-> sc, status |-> st] :
     sd \in Sides, sc \in ScoreTexts, st \in {"pending", "played"}}

\* weekend_fixtures(raw_fixtures, start, end): the fixtures of the weekend.
WeekendLists == UNION {[1..n -> RawFixtures] : n \in 0..MaxWeekend}

\* Lines 1227-1233: the entries of one team's weekend fixtures.
formatted_fixtures(entry, weekend) ==
  [j \in 1..Len(weekend) |->
     format_scoreboard_fixture(
       weekend[j], entry.name,
       determine_category_gender(entry.name, entry.compLabel),
       entry.compLabel, fixture_id_of(entry.teamId, weekend[j]))]

IsHome(e) == e._ha = "h"
IsAway(e) == e._ha # "h"

InitScoreboard ==
  /\ fs = [p \in Paths |-> NoFile]
  /\ BulkIdle /\ ClientIdle /\ ValIdle /\ WkIdle /\ OvIdle /\ UpIdle
  /\ spc = "idle" /\ sruns = 0 /\ sidx = 0
  /\ scoreboard_file = NoBoard /\ previous_board = NoBoard /\ fetched = <<>>
  /\ scoreboard_home = <<>> /\ scoreboard_away = <<>>

notSbVars == <<fs, bulkVars, clientVars, valVars, wkVars, ovVars, upVars>>

\* The command is entered (lines 1187-1202).
SbStart ==
  /\ spc \in {"idle", "written"}
  /\ sruns < MaxScoreRuns
  /\ sruns' = sruns + 1
  /\ spc' = "loop" /\ sidx' = 1
  /\ previous_board' = scoreboard_file
  /\ fetched' = <<>> /\ scoreboard_home' = <<>> /\ scoreboard_away' = <<>>
  /\ UNCHANGED <<scoreboard_file, notSbVars>>

\* Lines 1210-1212: an entry without teamId or compId is skipped.
SbSkip ==
  /\ spc = "loop" /\ sidx <= Len(ScoreTeams)
  /\ (ScoreTeams[sidx].teamId = <<>> \/ ScoreTeams[sidx].compId = <<>>)
  /\ sidx' = sidx + 1
  /\ UNCHANGED <<spc, sruns, scoreboard_file, previous_board, fetched,
                 scoreboard_home, scoreboard_away, notSbVars>>

\* Lines 1214-1240: the fixtures of a team are fetched, and each fixture of
\* the weekend is formatted and appended as it came.
SbFetch ==
  /\ spc = "loop" /\ sidx <= Len(ScoreTeams)
  /\ ScoreTeams[sidx].teamId # <<>> /\ ScoreTeams[sidx].compId # <<>>
  /\ \E weekend \in WeekendLists :
       LET formatted == formatted_fixtures(ScoreTeams[sidx], weekend)
       IN  /\ scoreboard_home' = scoreboard_home \o SelectSeq(formatted, IsHome)
           /\ scoreboard_away' = scoreboard_away \o SelectSeq(formatted, IsAway)
           /\ fetched' = fetched \o [j \in 1..Len(weekend) |->
                                        [team |-> sidx, fixture |-> weekend[j]]]
  /\ sidx' = sidx + 1
  /\ UNCHANGED <<spc, sruns, scoreboard_file, previous_board, notSbVars>>

\* Lines 1242-1243: the fetch raised; the team contributes nothing.
SbFetchError ==
  /\ spc = "loop" /\ sidx <= Len(ScoreTeams)
  /\ ScoreTeams[sidx].teamId # <<>> /\ ScoreTeams[sidx].compId # <<>>
  /\ sidx' = sidx + 1
  /\ UNCHANGED <<spc, sruns, scoreboard_file, previous_board, fetched,
                 scoreboard_home, scoreboard_away, notSbVars>>

\* Lines 1245-1254: weekend_fixtures.json is written.
SbWrite ==
  /\ spc = "loop" /\ sidx > Len(ScoreTeams)
  /\ scoreboard_file' = [exists |-> TRUE, home |-> scoreboard_home,
                         away |-> scoreboard_away]
  /\ spc' = "written"
  /\ UNCHANGED <<sruns, sidx, previous_board, fetched, scoreboard_home,
                 scoreboard_away, notSbVars>>

NextScoreboard ==
  \/ SbStart
  \/ SbSkip
  \/ SbFetch
  \/ SbFetchError
  \/ SbWrite

SpecScoreboard == InitScoreboard /\ [][NextScoreboard]_vars

\* ------------------------------------------------------------------------
\* The three kinds of record of a result list.
IsFallbackRecord(r) == r.source = "fallback"
IsErrorRecord(r) ==
  r.error # "" /\ r.source = "" /\ r.stats = NoStats /\ r.snapshotDate = ""
IsLiveRecord(r) == r.error = "" /\ r.source = ""

ResultsBuilt == pc \in {"rotate", "rotating", "done"}
KeyOf(i) == make_entry_key(config[i], i)

\* C1: the result list has one element per configuration entry and its i-th
\* element is the record that was produced for the i-th entry (stated as the
\* claim has it, for any configuration list).
C1_OrderPreserved ==
  ResultsBuilt =>
    /\ Len(results) = N
    /\ \A i \in 1..N :
         KeyOf(i) \in DOMAIN records_by_key => origin_by_key[KeyOf(i)] = i

\* C2: every configured entry has exactly one record in the result list, and
\* that record is exactly one of live record, fallback record (meta.source =
\* "fallback") and error record (the output of build_error_record).
C2_ExactlyOneRecord ==
  ResultsBuilt =>
    /\ Len(results) = N
    /\ \A i \in 1..Len(results) :
         Cardinality({k \in {"live", "fallback", "error"} :
                        \/ k = "live" /\ IsLiveRecord(results[i])
                        \/ k = "fallback" /\ IsFallbackRecord(results[i])
                        \/ k = "error" /\ IsErrorRecord(results[i])}) = 1

C2_Witness ==
  /\ pc = "done"
  /\ \E i, j \in 1..Len(results) :
       IsFallbackRecord(results[i]) /\ IsErrorRecord(results[j])

\* C3: when no Build succeeded for team T (for T's composite key) in the run
\* and the published snapshot the run started with holds a record with T's
\* teamId, T's final record is stamped as a fallback and has the stats of a
\* prior record with that teamId.
HasPrior(i) ==
  /\ config[i].teamId # ""
  /\ KeyOf(i) \notin okKeys
  /\ fs0[publish_path].exists
  /\ \E j \in 1..Len(fs0[publish_path].data) :
       fs0[publish_path].data[j].teamId = config[i].teamId

C3_FallbackProvenance ==
  ResultsBuilt =>
    \A i \in 1..N :
      HasPrior(i) =>
        /\ results[i].source = "fallback"
        /\ results[i].fallbackSnapshot = publish_path
        /\ results[i].fallbackAppliedAt = runNo
        /\ \E j \in 1..Len(fs0[publish_path].data) :
             /\ fs0[publish_path].data[j].teamId = config[i].teamId
             /\ results[i].stats = fs0[publish_path].data[j].stats

C3_Witness ==
  /\ pc = "done"
  /\ \E i \in 1..N :
       /\ HasPrior(i)
       /\ config[i].compId # ""
       /\ results[i].stats # NoStats

\* C4: in a run with rotation requested, if some entry ends as an ErrorRecord
\* rotate_snapshots is not called and the run leaves the current and the
\* previous snapshot as they were.
C4_RotationSkipped ==
  /\ pc = "rotating" => \A i \in 1..Len(results) : ~IsErrorRecord(results[i])
  /\ (pc = "done" /\ rotate /\ \E i \in 1..Len(results) : IsErrorRecord(results[i]))
       => /\ fs[publish_path] = fs0[publish_path]
          /\ fs[previous_path] = fs0[previous_path]

C4_Witness ==
  /\ pc = "done" /\ rotate
  /\ \E i \in 1..Len(results) : IsErrorRecord(results[i])
  /\ fs0[publish_path].exists

\* C5: rotate_snapshots raises exactly when the new snapshot does not exist,
\* and when it has raised every file is as it was at the call.
C5_RaisesUntouched ==
  /\ rpc = "raised" => ~rot0[rnew].exists /\ fs = rot0
  /\ rpc \in {"demote", "promote", "returned"} => rot0[rnew].exists

C5_Witness == rpc = "raised" /\ rot0[publish_path].exists

\* C6: the rename of current to previous comes before the rename of new to
\* current; killed between the two, current is absent, previous holds the old
\* current and the new snapshot is still at its path; calling
\* rotate_snapshots again then ends with current holding the new snapshot and
\* previous the old current.
C6_CrashRecovery ==
  /\ rpc = "promote" => fs[rnew].exists /\ ~fs[publish_path].exists
  /\ (rpc = "crashed" /\ crashed = "between" /\ crash0[publish_path].exists)
       => /\ ~fs[publish_path].exists
          /\ fs[previous_path] = crash0[publish_path]
          /\ fs[rnew] = crash0[rnew]
  /\ (rpc = "returned" /\ crashed = "between" /\ crash0[publish_path].exists)
       => /\ fs[publish_path] = crash0[rnew]
          /\ fs[previous_path] = crash0[publish_path]
          /\ ~fs[rnew].exists

C6_Witness ==
  rpc = "returned" /\ crashed = "between" /\ crash0[publish_path].exists

\* C7: over runs that all ask for rotation, the current snapshot is never
\* absent or empty while a staging snapshot exists.
C7_NoStagingWithoutCurrent ==
  allRotate =>
    ~(/\ fs[staging_path].exists
      /\ (~fs[publish_path].exists \/ fs[publish_path].data = <<>>))

\* C8 as stated: over runs that all ask for rotation, current and previous
\* never hold the same content.
C8_NeverSameContent ==
  (allRotate /\ fs[publish_path].exists /\ fs[previous_path].exists)
    => fs[publish_path].data # fs[previous_path].data

\* C8 as amended: current and previous are never the same snapshot file (the
\* output of one write): rotation moves files and never copies them.
C8_NeverSameSnapshot ==
  (fs[publish_path].exists /\ fs[previous_path].exists)
    => fs[publish_path].wid # fs[previous_path].wid

C8_Witness ==
  /\ allRotate /\ pc = "done"
  /\ fs[publish_path].exists /\ fs[previous_path].exists

\* C9: between runs, once a current snapshot has been published it exists and
\* holds one entry for every configured team, in configuration order.
C9_PublishedComplete ==
  (pc \in {"idle", "done"} /\ published) =>
    /\ fs[publish_path].exists
    /\ Len(fs[publish_path].data) = N
    /\ \A i \in 1..N : fs[publish_path].data[i].teamId = config[i].teamId

C9_Witness ==
  /\ pc = "done" /\ published /\ runNo = 2
  /\ errors_by_key # <<>>

\* C10: an entry without teamId or compId never causes a fetch, is built at
\* most once per run (never re-attempted) and ends as an ErrorRecord.
IsConfigError(entry) == entry.teamId = "" \/ entry.compId = ""

C10_ConfigErrorNeverRetried ==
  pc # "lib" =>
    \A i \in 1..N :
      IsConfigError(config[i]) =>
        /\ fetches[i] = 0
        /\ builds[i] <= 1
        /\ ResultsBuilt => IsErrorRecord(results[i])

RECURSIVE SumSeq(_)
SumSeq(s) == IF s = <<>> THEN 0 ELSE Head(s) + SumSeq(Tail(s))

\* C11: after the initial pass there are at most 2 retry rounds; round r is
\* preceded by a wait of 4*r seconds, 12 seconds at most in all; a round runs
\* only with a non-empty failure map and re-attempts only keys that are still
\* in it; an entry that succeeds in a round is in the success map and no
\* longer in the failure map.
C11_RetryRounds ==
  pc # "lib" =>
    /\ Len(slept) <= 2
    /\ \A r \in 1..Len(slept) : slept[r] = 4 * r
    /\ SumSeq(slept) <= 12
    /\ \A i \in 1..N : builds[i] <= 1 + Len(slept)
    /\ pc = "retrying" =>
         /\ Len(slept) = attempt
         /\ pending # <<>>
         /\ errors_by_key # <<>>
         /\ \A j \in 1..Len(pending) : ErrHas(errors_by_key, pending[j])
    /\ (last.retry /\ last.ok) =>
         /\ last.key \in DOMAIN records_by_key
         /\ ~ErrHas(errors_by_key, last.key)

\* Two rounds ran, and the last re-attempt emptied the failure map.
C11_Witness ==
  /\ pc = "fallback" /\ slept = <<4, 8>>
  /\ last.retry /\ last.ok /\ errors_by_key = <<>>
  /\ \E i \in 1..N : builds[i] = 3

\* C12: an entry ends as an ErrorRecord only when no live fetch for it
\* succeeded (initial pass and retry rounds) and the published snapshot had no
\* record to substitute; otherwise its output is the record held for it, a
\* live record or a fallback copy, and not an ErrorRecord.
C12_ErrorRecordOnlyWhenBothFail ==
  ResultsBuilt =>
    \A i \in 1..N :
      /\ IsErrorRecord(results[i]) <=> (KeyOf(i) \notin okKeys /\ ~HasPrior(i))
      /\ ~IsErrorRecord(results[i]) =>
           /\ KeyOf(i) \in DOMAIN records_by_key
           /\ results[i] = records_by_key[KeyOf(i)]
           /\ IsLiveRecord(results[i]) \/ IsFallbackRecord(results[i])
           /\ IsLiveRecord(results[i]) => KeyOf(i) \in okKeys
           /\ IsFallbackRecord(results[i]) =>
                /\ fs0[publish_path].exists
                /\ \E j \in 1..Len(fs0[publish_path].data) :
                     fs0[publish_path].data[j].teamId = config[i].teamId

\* A run ends with an ErrorRecord for a well-formed entry that was fetched
\* three times in vain and had nothing to fall back on, next to a live record.
C12_Witness ==
  /\ pc = "done"
  /\ \E i, j \in 1..N :
       /\ IsErrorRecord(results[i]) /\ ~IsConfigError(config[i])
       /\ builds[i] = 3 /\ fetches[i] = 3
       /\ IsLiveRecord(results[j])

\* C13: a call of _get issues at most 4 requests; only a 429 is followed by
\* another attempt; a 429 at the 4th attempt and any other HTTP error status
\* raise the HTTP error at once; the first response without an error status
\* is returned.
C13_AtMostFourRequests ==
  cpc # "off" =>
    LET n == Len(statuses)
    IN  /\ n <= 4
        /\ cattempt <= 4
        /\ \A i \in 1..(n - 1) : statuses[i] = 429
        /\ Len(backoffs) <= n
        /\ cpc = "top" => (n = cattempt - 1 /\ Len(backoffs) = n)
        /\ cpc = "sent" => (n = cattempt /\ resp.status = statuses[n])
        /\ cpc = "returned" => (n >= 1 /\ statuses[n] = 200 /\ resp.status = 200)
        /\ cpc = "raised_http" =>
             /\ n >= 1
             /\ \/ statuses[n] = 429 /\ n = 4
                \/ statuses[n] = 500
        /\ cpc = "raised_transport" => (n >= 1 /\ statuses[n] = 0)
        /\ cpc # "raised_runtime"

\* The 4th attempt of a call was answered 429 and the HTTP error was raised.
C13_Witness ==
  /\ cpc = "raised_http"
  /\ statuses = <<429, 429, 429, 429>>

\* C14: any two consecutive requests of one client are at least 1200 ms
\* apart, whatever the earlier request ended in.
C14_MinimumGap ==
  Len(reqTimes) = 2 => reqTimes[2] - reqTimes[1] >= 1200

\* C15 as stated: after a 429 that carries a Retry-After value the delay is
\* the value the upstream gave, never the exponential one.
C15_RetryAfterWheneverPresent ==
  \A j \in 1..Len(backoffs) :
    LET b == backoffs[j]
    IN  (b.header.present /\ b.header.value # <<>>) =>
          /\ b.honoured
          /\ b.delay # 1200 * Pow2(b.attempt)

\* C15, amended: after a 429 at attempt k the delay is the Retry-After value
\* in seconds when that value is made of decimal digits only, and 1200 * 2^k
\* ms otherwise (2400, 4800, 9600, 19200); the next-allowed time is the time
\* of handling plus the delay, and the client sleeps the delay before the
\* next attempt.
C15_BackoffDelay ==
  /\ \A j \in 1..Len(backoffs) :
       LET b == backoffs[j]
           v == b.header.value
           digits == b.header.present /\ v # <<>> /\ \A i \in 1..Len(v) : v[i] \in Digits
       IN  /\ b.attempt = j
           /\ digits => b.delay = 1000 * ParseInt(v)
           /\ ~digits => b.delay = <<2400, 4800, 9600, 19200>>[j]
           /\ j < 4 => b.slept = b.delay
  /\ (backoffs # <<>> /\ cpc \in {"top", "raised_http"} /\ statuses[Len(statuses)] = 429) =>
       LET b == backoffs[Len(backoffs)]
       IN  /\ next_allowed = b.at + b.delay
           /\ cpc = "top" => clock = b.at + b.slept

\* Three 429s in one call: one with a number of seconds, one with a date, one
\* without the header; the client is about to make its fourth attempt.
C15_Witness ==
  /\ cpc = "top" /\ Len(backoffs) = 3
  /\ backoffs[1].header = [present |-> TRUE, value |-> <<"1", "0">>]
  /\ backoffs[1].delay = 10000
  /\ backoffs[2].header = [present |-> TRUE, value |-> <<"W", "e", "d">>]
  /\ backoffs[2].delay = 4800
  /\ backoffs[3].header = NoHeader
  /\ backoffs[3].delay = 9600

Validated == vpc \in {"passed", "failed"}
HasIssue(kind) == \E j \in 1..Len(issues) : issues[j].kind = kind
TeamIds(file) == {file.data[j].teamId : j \in 1..Len(file.data)} \ {""}

\* C16: validation evaluates every check (expected count, error records,
\* missing points per game among the records without error, and with a
\* previous snapshot its count and the two differences of teamIds), reports
\* each issue it finds, once, and exits with status 1 exactly when it found
\* an issue; without an issue it passes.
C16_AllChecksCollected ==
  Validated =>
    LET cur == fs[publish_path].data
        prev == fs[previous_path]
        compared == previous_given /\ prev.exists
    IN  /\ HasIssue("current_count") <=>
             (expected_count # 0 /\ Len(cur) # expected_count)
        /\ HasIssue("errors") <=> (\E j \in 1..Len(cur) : cur[j].error # "")
        /\ HasIssue("missing_ppg") <=>
             (\E j \in 1..Len(cur) : cur[j].error = "" /\ cur[j].stats.ppg = "")
        /\ HasIssue("previous_count") <=>
             (compared /\ expected_count # 0 /\ Len(prev.data) # expected_count)
        /\ HasIssue("missing_from_current") <=>
             (compared /\ TeamIds(prev) \ TeamIds(fs[publish_path]) # {})
        /\ HasIssue("missing_from_previous") <=>
             (compared /\ TeamIds(fs[publish_path]) \ TeamIds(prev) # {})
        /\ \A j, k \in 1..Len(issues) : issues[j].kind = issues[k].kind => j = k
        /\ exit_status = (IF issues # <<>> THEN 1 ELSE 0)
        /\ vpc = "passed" <=> issues = <<>>

\* All six checks fail in one validation and all six issues are reported.
C16_Witness ==
  /\ vpc = "failed" /\ exit_status = 1
  /\ Len(issues) = 6
  /\ HasIssue("current_count") /\ HasIssue("errors") /\ HasIssue("missing_ppg")
  /\ HasIssue("previous_count") /\ HasIssue("missing_from_current")
  /\ HasIssue("missing_from_previous")

\* C17: with both snapshots present, every teamId of the previous snapshot
\* that the current one lacks is reported as missing from current and every
\* teamId of the current snapshot that the previous one lacks as missing from
\* previous; equal sets give neither issue.
C17_SymmetricDifference ==
  (Validated /\ previous_given /\ fs[previous_path].exists) =>
    LET cur_ids == TeamIds(fs[publish_path])
        prev_ids == TeamIds(fs[previous_path])
        Named(kind) == UNION {issues[j].names : j \in {k \in 1..Len(issues) : issues[k].kind = kind}}
    IN  /\ Named("missing_from_current") = prev_ids \ cur_ids
        /\ Named("missing_from_previous") = cur_ids \ prev_ids
        /\ HasIssue("missing_from_current") <=> prev_ids \ cur_ids # {}
        /\ HasIssue("missing_from_previous") <=> cur_ids \ prev_ids # {}
        /\ cur_ids = prev_ids =>
             ~HasIssue("missing_from_current") /\ ~HasIssue("missing_from_previous")

\* Current {A, B, C} against previous {A, B, D}: D and C are both reported.
C17_Witness ==
  /\ vpc = "failed"
  /\ TeamIds(fs[publish_path]) = {"A", "B", "C"}
  /\ TeamIds(fs[previous_path]) = {"A", "B", "D"}
  /\ \E j, k \in 1..Len(issues) :
       /\ issues[j] = Issue("missing_from_current", 1, {"D"})
       /\ issues[k] = Issue("missing_from_previous", 1, {"C"})

\* C18: when no previous snapshot is on disk the outcome is that of the
\* checks on the current snapshot alone: validation passes whenever these
\* find no issue.
C18_PreviousAbsentIgnored ==
  (Validated /\ ~fs[previous_path].exists) =>
    LET cur == fs[publish_path].data
        current_ok ==
          /\ expected_count = 0 \/ Len(cur) = expected_count
          /\ \A j \in 1..Len(cur) : cur[j].error = "" /\ cur[j].stats.ppg # ""
    IN  vpc = "passed" <=> current_ok

\* C19: whatever the current UTC time, the window is anchored to a Saturday
\* at 00:00 UTC: the same day on a Saturday, the day before on a Sunday, and
\* from Monday to Friday the Saturday that follows in the same week.
C19_AnchorSaturday ==
  wpc \in {"returned", "raised"} =>
    LET day == today \div 24
        sat == saturday_utc \div 24
    IN  /\ saturday_utc % 24 = 0
        /\ sat % 7 = 5
        /\ day % 7 = 5 => sat = day
        /\ day % 7 = 6 => sat = day - 1
        /\ day % 7 < 5 => (sat > day /\ sat - day <= 5 /\ sat \div 7 = day \div 7)

\* Called on a Sunday at 10:00, the filter anchors to the day before.
C19_Witness ==
  /\ wpc = "returned"
  /\ today = 6 * 24 + 10
  /\ saturday_utc = 5 * 24

\* The fixture is on a list the filter returns.
KeptByClaim(f) ==
  /\ ~f.division.none
  /\ \A name \in {f.home_team, f.away_team} :
       name.none \/ (~contains(lower(name.s), <<"u", "1", "6">>)
                     /\ ~contains(lower(name.s), <<"u", "1", "8">>))
  /\ f.kickoff.none \/ lower(strip(f.kickoff.s)) # <<"t", "b", "c">>
  /\ ~f.date.none
  /\ f.date.local - f.date.offset >= saturday_utc - 2
  /\ f.date.local - f.date.offset < saturday_utc + 48 + 2

\* C20: the filter returns, in input order, exactly the fixtures that are
\* not kids' fixtures (division absent, or u16/u18 in a team name), have no
\* TBC kickoff, and whose time in UTC is in [Saturday 00:00 - 2 h, Monday
\* 00:00 + 2 h).
C20_ExactlyWeekendFixtures ==
  wpc = "returned" => weekend_fixtures = SelectSeq(fixtures, KeptByClaim)

\* Of a fixture at the very start of the window and one at its very end, the
\* filter keeps the first and drops the second.
C20_Witness ==
  /\ wpc = "returned"
  /\ Len(fixtures) = 2
  /\ to_utc(fixtures[1].date) = saturday_utc - 2
  /\ to_utc(fixtures[2].date) = saturday_utc + 50
  /\ weekend_fixtures = <<fixtures[1]>>

\* C21: when rotate_snapshots returns, current is the file the new snapshot
\* was at the call, the new snapshot path is gone, and previous is the file
\* current was at the call if there was one and otherwise as it was; no other
\* path changed, so each file was moved and none copied.
C21_RotationMoves ==
  (pc = "lib" /\ rpc = "returned") =>
    /\ fs[publish_path] = rot0[rnew]
    /\ fs[publish_path].exists
    /\ ~fs[rnew].exists
    /\ fs[previous_path] =
         (IF rot0[publish_path].exists THEN rot0[publish_path] ELSE rot0[previous_path])
    /\ fs[custom_path] = rot0[custom_path]

\* A rotation over an existing current and an existing previous snapshot of
\* other content has returned.
C21_Witness ==
  /\ pc = "lib" /\ rpc = "returned"
  /\ rot0[publish_path].exists /\ rot0[previous_path].exists
  /\ rot0[publish_path].wid # rot0[rnew].wid
  /\ rot0[previous_path].wid # rot0[publish_path].wid
  /\ fs[previous_path] = rot0[publish_path]

BothEnded == opc # <<>> /\ \A p \in Procs : opc[p] \in {"ended", "raised"}
Rotators == {p \in Procs : oerrs[p] = <<>>}

\* The current snapshot is absent, or the snapshot that was current when the
\* last rotation began is in neither current nor previous.
SnapshotLost ==
  \/ ~fs[publish_path].exists
  \/ lastOld.exists /\ lastOld # fs[publish_path] /\ lastOld # fs[previous_path]

\* C22: with serialized runs, after both have ended no rotation has raised,
\* the current snapshot exists and the snapshot it replaced is the previous
\* one: nothing is lost. (That overlapping runs do reach a state where the
\* current snapshot is absent and the replaced one is lost is C22_Witness.)
C22_SerializedRunsLoseNothing ==
  (serial /\ BothEnded) =>
    /\ ~SnapshotLost
    /\ \A p \in Procs : opc[p] = "ended"
    /\ Rotators = {} => (fs[publish_path] = OldCurrent /\ fs[previous_path] = fs0[previous_path])
    /\ Rotators # {} =>
         /\ fs[publish_path].wid \in Rotators
         /\ fs[previous_path] = lastOld
    /\ fs[staging_path].exists => fs[staging_path].wid \in Procs \ Rotators
    /\ Cardinality(Rotators) = 1 => fs[previous_path] = OldCurrent
    /\ Rotators = Procs => (fs[previous_path].wid \in Procs /\ fs[previous_path].wid # fs[publish_path].wid)

\* Two overlapping runs have ended; the current snapshot is absent and the
\* snapshot that was current when the last rotation began is lost.
C22_Witness ==
  /\ ~serial /\ BothEnded
  /\ ~fs[publish_path].exists
  /\ lastOld = OldCurrent
  /\ OldCurrent # fs[previous_path]

\* C25: a snapshot that rotation has made current holds no record with an
\* error, and no fallback record of a result list carries an error.
C25_NoErrorPromoted ==
  /\ (pc = "rotating" /\ rpc = "returned") =>
       \A j \in 1..Len(fs[publish_path].data) : fs[publish_path].data[j].error = ""
  /\ ResultsBuilt =>
       \A i \in 1..N : IsFallbackRecord(results[i]) => results[i].error = ""

\* C26: a record substituted by fallback has the teamId and the compId of
\* the entry it stands for.
C26_FallbackIdentity ==
  ResultsBuilt =>
    \A i \in 1..N :
      IsFallbackRecord(results[i]) =>
        /\ results[i].teamId = config[i].teamId
        /\ results[i].compId = config[i].compId

DistinctKeys == \A i, j \in 1..N : KeyOf(i) = KeyOf(j) => i = j
AfterInitialPass == pc \in {"retry", "retrying", "fallback", "build", "rotate", "rotating", "done"}
SuccessKeys == DOMAIN records_by_key
FailureKeys == {errors_by_key[j].key : j \in 1..Len(errors_by_key)}

\* C27: with pairwise distinct composite keys, from the end of the initial
\* pass on the success map and the failure map are disjoint and together
\* hold every configured key; within a run a key of the success map stays in
\* it and its entry is not built again.
C27_MapsPartitionKeys ==
  /\ [](( AfterInitialPass /\ DistinctKeys) =>
          /\ SuccessKeys \cap FailureKeys = {}
          /\ SuccessKeys \cup FailureKeys = {KeyOf(i) : i \in 1..N})
  /\ [][(DistinctKeys /\ pc # "lib" /\ pc' # "initial") =>
          \A i \in 1..N :
            KeyOf(i) \in SuccessKeys =>
              /\ KeyOf(i) \in DOMAIN records_by_key'
              /\ builds'[i] = builds[i]
              /\ fetches'[i] = fetches[i]]_vars

\* A run over two entries with distinct keys: one succeeded in the initial
\* pass, the other in the second retry round, and the failure map is empty.
C27_Witness ==
  /\ pc = "fallback" /\ N = 2 /\ DistinctKeys
  /\ FailureKeys = {} /\ SuccessKeys = {KeyOf(1), KeyOf(2)}
  /\ builds = <<1, 3>>

\* C23: in an updater cycle run with validation, a snapshot that fails
\* validation does not become or remain the current published snapshot: when
\* the cycle ends with a failed validation, the snapshot that validation read
\* is no longer the current one.
C23_FailedSnapshotNotCurrent ==
  (upc = "cycle_end" /\ validate /\ fetch_rc = 0 /\ validate_rc = 1
     /\ validated.exists)
    => fs[publish_path] # validated

\* C29: validation starts only from a finished bulk subprocess that returned
\* 0 and only when it was asked for; no file changes once the bulk subprocess
\* has ended, so rotation is over before validation reads; and the cycle
\* reports success exactly when the fetch returned 0 and the validation, if
\* asked for, returned 0.
C29_CycleOrderAndResult ==
  /\ [](upc = "cycle_end" =>
          (success <=> (fetch_rc = 0 /\ (validate => validate_rc = 0))))
  /\ [](upc = "validating" => (validate /\ fetch_rc = 0))
  /\ [][(upc' = "validating" /\ upc # "validating") =>
          (upc = "bulk_done" /\ fetch_rc = 0 /\ validate)]_vars
  /\ [][(upc \in {"bulk_done", "validating", "cycle_end"}) => fs' = fs]_vars
  /\ [][(validate_rc' # validate_rc /\ validate_rc' # -1) =>
          (upc = "validating" /\ validate_rc' = validate_exit(fs, expect_count))]_vars

\* A cycle whose fetch rotated a snapshot in and whose validation failed.
C29_Witness ==
  /\ upc = "cycle_end" /\ validate /\ fetch_rc = 0 /\ validate_rc = 1
  /\ ~success /\ ~errors_left
  /\ fs[publish_path].data = <<UpGood, UpNoPpg>>
  /\ fs[previous_path].data = <<UpGood, UpOther>>

\* C30: in continuous mode every finished cycle, whatever its result, is
\* followed by the wait and the wait by another cycle, unless the updater is
\* interrupted; nothing but the interrupt ends the loop.
C30_KeepsCycling ==
  /\ [](~once => upc # "exited")
  /\ [][(upc' = "stopped" /\ upc # "stopped") => (~once /\ exit_code' = 0)]_vars
  /\ (upc = "cycle_end" /\ ~once) ~> (upc = "sleeping" \/ upc = "stopped")
  /\ (upc = "sleeping") ~> (upc = "cycle" \/ upc = "stopped")
  /\ ~once => ([]<>(upc = "cycle") \/ <>(upc = "stopped"))

\* Another cycle has started after a cycle whose validation failed.
C30_Witness ==
  /\ ~once /\ upc = "cycle" /\ last_outcome = "validation_failed" /\ ~success

load_previous_scoreboard(board) ==
  LET entries == board.home \o board.away
      ids == {entries[j].fixtureId : j \in 1..Len(entries)} \ {<<>>}
      lastOf(fid) == CHOOSE j \in 1..Len(entries) :
                       /\ entries[j].fixtureId = fid
                       /\ \A m \in (j + 1)..Len(entries) : entries[m].fixtureId # fid
  IN  IF board.exists THEN [fid \in ids |-> entries[lastOf(fid)]]
      ELSE <<>>

\* The entries of the written file with a given fixtureId.
Emitted(fid) ==
  LET entries == scoreboard_file.home \o scoreboard_file.away
  IN  {entries[j] : j \in {m \in 1..Len(entries) : entries[m].fixtureId = fid}}

\* C24: when update-scoreboard has written weekend_fixtures.json, a fetched
\* weekend fixture whose previously published entry (same fixtureId) was
\* Played while the fresh one is not, or had a score while the fresh one has
\* none, is emitted as the previous entry.
C24_RollbackMerge ==
  spc = "written" =>
    \A j \in 1..Len(fetched) :
      LET entry == ScoreTeams[fetched[j].team]
          fresh == formatted_fixtures(entry, <<fetched[j].fixture>>)[1]
          fid == fresh.fixtureId
          previous_fixtures_map == load_previous_scoreboard(previous_board)
      IN  (/\ fid \in DOMAIN previous_fixtures_map
           /\ \/ /\ previous_fixtures_map[fid].status = "Played"
                 /\ fresh.status # "Played"
              \/ /\ ~previous_fixtures_map[fid].home_score.none
                 /\ fresh.home_score.none)
          => Emitted(fid) = {previous_fixtures_map[fid]}

====
